---- MODULE Spec2Model ----
(***************************************************************************)
(* Nuitka: function bodies, function creations and direct calls            *)
(* (nuitka/nodes/FunctionNodes.py), the reformulation of function          *)
(* statements (nuitka/tree/ReformulationFunctionStatements.py) and the     *)
(* generator function templates                                            *)
(* (nuitka/codegen/templates/CodeTemplatesGeneratorFunction.py).           *)
(*                                                                         *)
(* The module holds several state machines over one set of variables:      *)
(*   SpecCreation  ExpressionFunctionCreation: construction and            *)
(*                 computeExpression (defaults, kw_defaults, annotations)  *)
(*   SpecCall      the call of a created function: computeExpressionCall,  *)
(*                 ExpressionFunctionCall.computeExpression, getCallCost   *)
(*   SpecScope     the closure giver/taker chain of function and class     *)
(*                 bodies: getVariableForReference/Assignment/Closure      *)
(*   SpecRelease   addFunctionVariableReleases and a run of the body       *)
(*   SpecQualname  building of bodies and getFunctionQualname              *)
(*   SpecGenerator a generator object and its context function             *)
(*   SpecBuild     buildFunctionNode, buildAsyncFunctionNode and the       *)
(*                 registration of the bodies with their module            *)
(*   SpecFlags     the indicators of a body and the calls that mark them   *)
(*   SpecMutation  removeClosureVariable, removeUserVariable and           *)
(*                 demoteClosureVariable on nested function bodies         *)
(* Each specification moves its own variables and leaves the others at     *)
(* their idle values.                                                      *)
(***************************************************************************)
EXTENDS Integers, Sequences, FiniteSets, TLC

VARIABLES
    python_version,   \* Utils.python_version
    \* ---- ExpressionFunctionCreation
    cr_pc,            \* "raw" -> "built" -> "computed"
    defaults,         \* child "defaults": sequence of expressions
    kw_defaults,      \* child "kw_defaults": expression or NoneExpr
    annotations,      \* child "annotations": expression or NoneExpr
    cr_result,        \* what computeExpression returned: [node, tag]
    \* ---- call of a created function
    experimental,     \* Options.isExperimental()
    callee,           \* the function body behind the function_ref
    call,             \* the original call node: [args, kw]
    node,             \* the expression now standing at the call site
    tag,              \* change tag of the last computeExpression* step
    stage,            \* "visit" | "direct" | "done" | "crashed" | "end"
    raise_exit,       \* constraint_collection.onExceptionRaiseExit was called
    history,          \* [node, changed, raise_exit] after each completed pass
    changed,          \* a step of the running pass reported a change
    \* ---- scopes
    parent,           \* provider of each scope (0 is the module)
    scope_kind,       \* "Module" | "Function" | "Generator" | "Class"
    unoptimized,      \* MarkUnoptimizedFunctionIndicator.isUnoptimized()
    providing,        \* ClosureGiverNodeBase.providing, per scope
    taken,            \* ClosureTakerMixin.taken, per scope
    last_op,          \* the last resolution performed and its result
    \* ---- release of the variables of a function body
    rel_function,     \* the body: [kind, variables], variables being
                      \* providing.values() in the order of registration
    rel_body,         \* child "body": [frame, tried, final]
    rel_pc,           \* "none" | "built" | "injected" | "body" | "final" |
                      \* "exited"
    rel_exit,         \* how the tried block was left
    rel_released,     \* the variables released in this run, in order
    \* ---- qualified names
    q_nodes,          \* the bodies built so far: [kind, provider, name,
                      \* is_lambda, is_genexpr, qualname_provider]
    q_count,          \* how many there are
    q_values,         \* what getFunctionQualname answered, per body
    \* ---- generator object running a compiled generator body
    gen_exits,        \* the exit templates the context function was made of
    gen_status,       \* "Created" | "Running" | "Suspended" | "Completed" |
                      \* "Failed"
    gen_pc,           \* position in the context function
    m_yielded,        \* generator->m_yielded
    gen_error,        \* the error indicator left by the context function
    gen_sent,         \* the value the last resume brought in
    gen_resumes,      \* number of resumes so far
    \* ---- building of the bodies of one module
    b_bodies,         \* the bodies made so far: [kind, provider, body]
    b_functions,      \* the bodies registered with the module, in order
    b_creations,      \* the function creations made so far
    b_result,         \* what the last builder call left: [tag, message,
                      \* source_ref, bodies], and the definition it was
                      \* called for: call = [args, defaults, source_ref]
    \* ---- indicators of one body
    fl_kind,          \* "None" before the body is made, then its kind
    fl_flags,         \* has_super, return_exception, needs_creation,
                      \* needs_direct, cross_module_use
    fl_return_exit,   \* needs_generator_return_exit, False being 0
    \* ---- removal and demotion of variables
    use_sites,        \* the variables the references of each body are bound to
    usage,            \* VariableRegistry: pairs of a variable and its user
    mut_error         \* the exception the last call ended with, or ""

varsVersion  == <<python_version>>
varsCreation == <<cr_pc, defaults, kw_defaults, annotations, cr_result>>
varsCall     == <<experimental, callee, call, node, tag, stage, raise_exit,
                  history, changed>>
varsScope    == <<parent, scope_kind, unoptimized, providing, taken, last_op>>
varsRelease  == <<rel_function, rel_body, rel_pc, rel_exit, rel_released>>
varsQualname == <<q_nodes, q_count, q_values>>
varsGenerator == <<gen_exits, gen_status, gen_pc, m_yielded, gen_error,
                   gen_sent, gen_resumes>>
varsBuild    == <<b_bodies, b_functions, b_creations, b_result>>
varsFlags    == <<fl_kind, fl_flags, fl_return_exit>>
varsMutation == <<use_sites, usage, mut_error>>
vars         == <<python_version, cr_pc, defaults, kw_defaults, annotations,
                  cr_result, experimental, callee, call, node, tag, stage,
                  raise_exit, history, changed, parent, scope_kind,
                  unoptimized, providing, taken, last_op, rel_function,
                  rel_body, rel_pc, rel_exit, rel_released, q_nodes, q_count,
                  q_values, gen_exits, gen_status, gen_pc, m_yielded,
                  gen_error, gen_sent, gen_resumes, b_bodies, b_functions,
                  b_creations, b_result, fl_kind, fl_flags, fl_return_exit,
                  use_sites, usage, mut_error>>

\* The language versions told apart by the code: 2.x, 3.0-3.3, 3.4, 3.5.
PythonVersions == {270, 330, 340, 350}

(***************************************************************************)
(* Bounds of the model.                                                    *)
(***************************************************************************)
MaxDefaults == 3
MaxArgs == 2
MaxPositional == 3
MaxPasses == 2
MaxScopes == 3
MaxResolutions == 2
MaxVariables == 3
MaxBodies == 3
MaxResumes == 3
MaxBuilds == 2

(***************************************************************************)
(* Expressions, as far as the function creation looks at them: which child *)
(* it is, whether it is a constant reference (and of what), and the answer *)
(* of willRaiseException(BaseException).                                   *)
(***************************************************************************)
NoneExpr == [name |-> "None", index |-> 0, constant |-> "", willRaise |-> FALSE]

DefaultExpr(i, r) ==
    [name |-> "default", index |-> i, constant |-> "", willRaise |-> r]

KwDefaultsExprs ==
    { [name |-> "kw_defaults", index |-> 0, constant |-> c, willRaise |-> r] :
        c \in {""}, r \in BOOLEAN }
    \cup { [name |-> "kw_defaults", index |-> 0, constant |-> "{}",
            willRaise |-> FALSE] }

AnnotationsExprs ==
    { [name |-> "annotations", index |-> 0, constant |-> "", willRaise |-> r] :
        r \in BOOLEAN }

DefaultsSeqs ==
    UNION { { [i \in 1..n |-> DefaultExpr(i, f[i])] : f \in [1..n -> BOOLEAN] } :
            n \in 0..MaxDefaults }

isExpressionConstantRef(e) == e.constant # ""

\* ExpressionFunctionCreation.kw_defaults_before_defaults
kw_defaults_before_defaults == python_version < 340

\* The order of the children "defaults", "kw_defaults", "annotations".
named_children ==
    IF kw_defaults_before_defaults
    THEN <<"kw_defaults", "defaults", "annotations">>
    ELSE <<"defaults", "kw_defaults", "annotations">>

\* The checker of the child "kw_defaults".
convertNoneConstantOrEmptyDictToNone(e) ==
    IF e = NoneExpr THEN NoneExpr
    ELSE IF isExpressionConstantRef(e) /\ e.constant = "None" THEN NoneExpr
    ELSE IF isExpressionConstantRef(e) /\ e.constant = "{}" THEN NoneExpr
    ELSE e

\* buildParameterKwDefaults: None before Python 3 and without keyword only
\* arguments, otherwise a dictionary creation or a constant dictionary.
buildParameterKwDefaults ==
    IF python_version >= 300 THEN KwDefaultsExprs \cup {NoneExpr} ELSE {NoneExpr}

\* buildParameterAnnotations: None before Python 3 and without annotations.
buildParameterAnnotations ==
    IF python_version < 300 THEN {NoneExpr} ELSE AnnotationsExprs \cup {NoneExpr}

\* NodeMakingHelpers.wrapExpressionWithSideEffects: the new node, preceded by
\* the side effects when there are any.
wrapExpressionWithSideEffects(side_effects, new_node) ==
    IF side_effects # <<>>
    THEN [kind |-> "ExpressionSideEffects", side_effects |-> side_effects,
          expression |-> new_node]
    ELSE [kind |-> "Expression", side_effects |-> <<>>, expression |-> new_node]

\* The function creation itself, returned when nothing raises.
SelfCreation ==
    [kind |-> "ExpressionFunctionCreation", side_effects |-> <<>>,
     expression |-> NoneExpr]

NoResult == [node |-> SelfCreation, tag |-> "pending"]

\* The loop over the defaults: the first default that will raise is wrapped
\* with the side effects collected so far; the loop collects none.
RECURSIVE scanDefaults(_, _, _)
scanDefaults(ds, i, side_effects) ==
    IF i > Len(ds) THEN [found |-> FALSE, node |-> SelfCreation]
    ELSE IF ds[i].willRaise
         THEN [found |-> TRUE,
               node |-> wrapExpressionWithSideEffects(side_effects, ds[i])]
         ELSE scanDefaults(ds, i + 1, side_effects)

\* The part after the loop: kw_defaults, then annotations.
computeKwDefaultsAndAnnotations(kw, ann, side_effects) ==
    IF kw # NoneExpr /\ kw.willRaise
    THEN [node |-> wrapExpressionWithSideEffects(side_effects, kw),
          tag |-> "new_raise"]
    ELSE LET se == IF kw # NoneExpr THEN Append(side_effects, kw)
                   ELSE side_effects
         IN IF ann # NoneExpr /\ ann.willRaise
            THEN [node |-> wrapExpressionWithSideEffects(se, ann),
                  tag |-> "new_raise"]
            ELSE [node |-> SelfCreation, tag |-> "None"]

\* ExpressionFunctionCreation.computeExpression
computeExpressionCreation(ds, kw, ann) ==
    LET scan == scanDefaults(ds, 1, <<>>)
    IN IF scan.found
       THEN [node |-> scan.node, tag |-> "new_raise"]
       ELSE computeKwDefaultsAndAnnotations(kw, ann, <<>>)

(***************************************************************************)
(* SpecCreation: a function creation is built from what the tree building  *)
(* hands over, then computeExpression is applied to it.                    *)
(***************************************************************************)
IdleCreation ==
    /\ cr_pc = "idle"
    /\ defaults = <<>>
    /\ kw_defaults = NoneExpr
    /\ annotations = NoneExpr
    /\ cr_result = NoResult

\* buildFunctionNode up to the creation node: defaults, raw kw_defaults and
\* annotations as built for the language version.
InitCreation ==
    /\ python_version \in PythonVersions
    /\ cr_pc = "raw"
    /\ defaults \in DefaultsSeqs
    /\ kw_defaults \in buildParameterKwDefaults
    /\ annotations \in buildParameterAnnotations
    /\ cr_result = NoResult

\* ExpressionFunctionCreation.__init__: the children are set, the child
\* "kw_defaults" through its checker.
CreateFunctionCreation ==
    /\ cr_pc = "raw"
    /\ cr_pc' = "built"
    /\ kw_defaults' = convertNoneConstantOrEmptyDictToNone(kw_defaults)
    /\ UNCHANGED <<defaults, annotations, cr_result>>

\* The optimization visits the creation node.
ComputeExpressionCreation ==
    /\ cr_pc = "built"
    /\ cr_pc' = "computed"
    /\ cr_result' = computeExpressionCreation(defaults, kw_defaults, annotations)
    /\ UNCHANGED <<defaults, kw_defaults, annotations>>

(***************************************************************************)
(* The call of a created function.                                         *)
(*                                                                         *)
(* Parameter names and argument values are records, so that values of      *)
(* different kinds can stand in one list.                                  *)
(***************************************************************************)
Name(cat, i) == [cat |-> cat, index |-> i]

NoName == Name("None", 0)

Value(kind, i, rest) == [kind |-> kind, index |-> i, rest |-> rest]

\* The i-th positional argument expression of the call.
Positional(i) == Value("positional", i, <<>>)

\* matchCall binds a parameter left to its default to None.
DefaultValue == Value("default", 0, <<>>)

\* ParameterSpec, as filled by buildParameterSpec: normal_args, kw_only_args
\* (none before Python 3), list_star_arg, dict_star_arg, default_count.
ParameterSpecs ==
    { [normal_args |-> n, kw_only_args |-> k, list_star_arg |-> l,
       dict_star_arg |-> d, default_count |-> c] :
        n \in 0..MaxArgs, k \in 0..1, l \in BOOLEAN, d \in BOOLEAN,
        c \in 0..MaxArgs }

\* ParameterSpec.checkValid, as far as the counts go: no more defaults than
\* normal arguments.
checkValid(ps) == ps.default_count <= ps.normal_args

getArgumentNames(ps) == [i \in 1..ps.normal_args |-> Name("normal", i)]

getKwOnlyParameterNames(ps) == [i \in 1..ps.kw_only_args |-> Name("kw_only", i)]

getStarListArgumentName(ps) ==
    IF ps.list_star_arg THEN Name("list_star", 0) ELSE NoName

getStarDictArgumentName(ps) ==
    IF ps.dict_star_arg THEN Name("dict_star", 0) ELSE NoName

getDefaultCount(ps) == ps.default_count

\* ParameterSpec.getAllNames: every declared parameter.
getAllNames(ps) ==
    getArgumentNames(ps) \o getKwOnlyParameterNames(ps)
    \o (IF ps.list_star_arg THEN <<Name("list_star", 0)>> ELSE <<>>)
    \o (IF ps.dict_star_arg THEN <<Name("dict_star", 0)>> ELSE <<>>)

\* ParameterSpecs.matchCall for positional arguments only (pairs = ()):
\* either a dictionary over the names it was given, or TooManyArguments.
matchCall(args, star_list_arg, star_dict_arg, num_defaults, positional) ==
    LET num_pos  == Len(positional)
        num_args == Len(args)
        tooMany  == star_list_arg = NoName /\ num_pos > num_args
        tooFew   == \E i \in 1..num_args :
                        i > num_pos /\ i <= num_args - num_defaults
        keys     == { args[i] : i \in 1..num_args }
                    \cup (IF star_list_arg # NoName THEN {star_list_arg} ELSE {})
                    \cup (IF star_dict_arg # NoName THEN {star_dict_arg} ELSE {})
        bind(n)  ==
            IF n.cat = "normal"
            THEN IF n.index <= num_pos THEN positional[n.index] ELSE DefaultValue
            ELSE IF n.cat = "list_star"
            THEN Value("star_list", 0,
                       IF num_pos > num_args
                       THEN [j \in 1..(num_pos - num_args) |->
                                positional[num_args + j].index]
                       ELSE <<>>)
            ELSE Value("star_dict", 0, <<>>)
    IN IF tooMany \/ tooFew
       THEN [ok |-> FALSE, args_dict |-> [n \in {} |-> DefaultValue]]
       ELSE [ok |-> TRUE, args_dict |-> [n \in keys |-> bind(n)]]

\* The function bodies a function_ref can name, with what the call looks at.
Callees ==
    { [kind |-> k, mayRaise |-> r, parameters |-> ps] :
        k \in {"Function", "Generator", "Class"}, r \in BOOLEAN,
        ps \in {p \in ParameterSpecs : checkValid(p)} }

isGenerator(body) == body.kind = "Generator"

isExpressionClassBody(body) == body.kind = "Class"

\* ExpressionFunctionBody.mayRaiseException: that of the body's statements.
mayRaiseException(body) == body.mayRaise

\* The argument and keyword children of a call node. The arguments are None,
\* a constant tuple, a tuple creation, or another expression; the keywords
\* are None, a constant (empty or not), or a dictionary creation.
CallArgs ==
    {[shape |-> "None", values |-> <<>>], [shape |-> "Other", values |-> <<>>]}
    \cup { [shape |-> s, values |-> [i \in 1..n |-> Positional(i)]] :
             s \in {"ConstantRef", "MakeTuple"}, n \in 0..MaxPositional }

CallKws == {"None", "ConstantEmptyDict", "ConstantDict", "MakeDict"}

kwIsExpressionConstantRef(kw) == kw \in {"ConstantEmptyDict", "ConstantDict"}

kwConstantIsEmptyDict(kw) == kw = "ConstantEmptyDict"

\* The nodes that can stand at the call site.
CallNode ==
    [kind |-> "Call", values |-> <<>>, side_effects |-> <<>>]

ExpressionFunctionCall(values) ==
    [kind |-> "FunctionCall", values |-> values, side_effects |-> <<>>]

\* FunctionInlining.convertFunctionCallToOutline: the body with the values
\* bound to its parameters.
convertFunctionCallToOutline(values) ==
    [kind |-> "Outline", values |-> values, side_effects |-> <<>>]

\* makeRaiseExceptionReplacementExpressionFromInstance, wrapped with the
\* side effects given.
RaiseNode(side_effects) ==
    [kind |-> "Raise", values |-> <<>>, side_effects |-> side_effects]

\* ExpressionCall.extractPreCallSideEffects: the argument expressions.
extractPreCallSideEffects(c) == c.args.values

(***************************************************************************)
(* ExpressionFunctionCreation.computeExpressionCall, in its parts.         *)
(***************************************************************************)
\* First keyword test: keywords that are not the constant empty dictionary.
keywordsNotEmptyConstant(call_kw) ==
    call_kw # "None" /\
    (~kwIsExpressionConstantRef(call_kw) \/ ~kwConstantIsEmptyDict(call_kw))

\* Mutant: the second keyword test is missing.
keywordsGiven_Missing(call_kw) == FALSE

\* Second keyword test: any keywords expression at all.
keywordsGiven(call_kw) == call_kw # "None"

\* The positional arguments as a tuple; an expression that is neither a
\* constant nor a tuple creation trips "assert False".
argsTuple(call_args) ==
    IF call_args.shape = "None"
    THEN [error |-> "", values |-> <<>>]
    ELSE IF call_args.shape \in {"ConstantRef", "MakeTuple"}
    THEN [error |-> "", values |-> call_args.values]
    ELSE [error |-> "AssertionError", values |-> <<>>]

\* The values of the direct call: args_dict[name] for every name of
\* getAllNames(); a name matchCall did not bind is a KeyError.
directCallValues(call_spec, args_dict) ==
    LET names == getAllNames(call_spec)
    IN IF \E i \in 1..Len(names) : names[i] \notin DOMAIN args_dict
       THEN [error |-> "KeyError", values |-> <<>>]
       ELSE [error |-> "",
             values |-> [i \in 1..Len(names) |-> args_dict[names[i]]]]

\* Mutant: the raise alone, the side effects of the arguments dropped.
tooManyArgumentsRewrite_NoSideEffects(c) ==
    [node |-> RaiseNode(<<>>), tag |-> "new_raise", error |-> ""]

\* The handler of TooManyArguments: the raise, after the side effects of the
\* call's arguments.
tooManyArgumentsRewrite(c) ==
    [node |-> RaiseNode(extractPreCallSideEffects(c)), tag |-> "new_raise",
     error |-> ""]

Untouched(n) == [node |-> n, tag |-> "None", error |-> ""]

Crash(n, e) == [node |-> n, tag |-> "None", error |-> e]

computeExpressionCall(call_node, c, function_body) ==
    IF keywordsNotEmptyConstant(c.kw) THEN Untouched(call_node)
    ELSE IF keywordsGiven(c.kw) THEN Untouched(call_node)
    ELSE LET args_tuple == argsTuple(c.args)
             call_spec  == function_body.parameters
             m == matchCall(getArgumentNames(call_spec),
                            getStarListArgumentName(call_spec),
                            getStarDictArgumentName(call_spec),
                            getDefaultCount(call_spec),
                            args_tuple.values)
             v == directCallValues(call_spec, m.args_dict)
         IN IF args_tuple.error # "" THEN Crash(call_node, args_tuple.error)
            ELSE IF ~m.ok THEN tooManyArgumentsRewrite(c)
            ELSE IF v.error # "" THEN Crash(call_node, v.error)
            ELSE [node |-> ExpressionFunctionCall(v.values),
                  tag |-> "new_statements", error |-> ""]

(***************************************************************************)
(* getCallCost and ExpressionFunctionCall.computeExpression.               *)
(***************************************************************************)
\* "return None" of getCallCost.
CostNone == -1
CostMayRaise == 60
CostPlain == 20
InlineLimit == 50

\* Mutant: generator bodies are given a cost like function bodies.
getCallCost_NoGeneratorTest(function_body, is_experimental) ==
    IF ~is_experimental THEN CostNone
    ELSE IF isExpressionClassBody(function_body) THEN CostNone
    ELSE IF mayRaiseException(function_body) THEN CostMayRaise
    ELSE CostPlain

getCallCost(function_body, is_experimental) ==
    IF ~is_experimental THEN CostNone
    ELSE IF isGenerator(function_body) THEN CostNone
    ELSE IF isExpressionClassBody(function_body) THEN CostNone
    ELSE IF mayRaiseException(function_body) THEN CostMayRaise
    ELSE CostPlain

\* "cost is not None and cost < 50"
costAllowsInlining(cost) == cost # CostNone /\ cost < InlineLimit

\* Mutant: the node itself, but reported as a change.
keepFunctionCall_ReportsChange(call_node) ==
    [node |-> call_node, tag |-> "new_statements", error |-> ""]

\* What is returned when the call is not in-lined: the node itself, with no
\* change reported.
keepFunctionCall(call_node) == Untouched(call_node)

computeExpressionFunctionCall(call_node, function_body, is_experimental) ==
    LET cost == getCallCost(function_body, is_experimental)
    IN IF costAllowsInlining(cost)
       THEN [node |-> convertFunctionCallToOutline(call_node.values),
             tag |-> "new_statements", error |-> ""]
       ELSE keepFunctionCall(call_node)

(***************************************************************************)
(* SpecCall: optimization passes over one call site. A pass visits the     *)
(* node standing there: a call of the function creation goes through       *)
(* computeExpressionCall and, when that made a direct call, through the    *)
(* direct call's computeExpression; a direct call left by an earlier pass  *)
(* goes through its computeExpression; anything else is left alone.        *)
(***************************************************************************)
IdleCall ==
    /\ experimental = FALSE
    /\ callee = [kind |-> "Function", mayRaise |-> FALSE,
                 parameters |-> [normal_args |-> 0, kw_only_args |-> 0,
                                 list_star_arg |-> FALSE,
                                 dict_star_arg |-> FALSE,
                                 default_count |-> 0]]
    /\ call = [args |-> [shape |-> "None", values |-> <<>>], kw |-> "None"]
    /\ node = CallNode
    /\ tag = "None"
    /\ stage = "idle"
    /\ raise_exit = FALSE
    /\ history = <<>>
    /\ changed = FALSE

InitCall ==
    /\ python_version \in PythonVersions
    /\ experimental \in BOOLEAN
    /\ callee \in Callees
    /\ (python_version < 300 => callee.parameters.kw_only_args = 0)
    /\ call \in [args : CallArgs, kw : CallKws]
    /\ node = CallNode
    /\ tag = "None"
    /\ stage = "visit"
    /\ raise_exit = FALSE
    /\ history = <<>>
    /\ changed = FALSE

Step(r, next_stage) ==
    /\ node' = r.node
    /\ tag' = r.tag
    /\ changed' = (changed \/ r.tag # "None")
    /\ stage' = IF r.error # "" THEN "crashed" ELSE next_stage

\* The call node's computeExpression hands over to the called expression,
\* the function creation.
ComputeExpressionCall ==
    /\ stage = "visit"
    /\ node.kind = "Call"
    /\ LET r == computeExpressionCall(node, call, callee)
       IN Step(r, IF r.node.kind = "FunctionCall" THEN "direct" ELSE "done")
    /\ raise_exit' = TRUE
    /\ UNCHANGED <<experimental, callee, call, history>>

\* Mutant: the exception exit is recorded only for a call that is inlined.
functionCallRaiseExit_OnlyWhenInlined(function_body, recorded) ==
    recorded \/ (mayRaiseException(function_body) /\
                 costAllowsInlining(getCallCost(function_body, experimental)))

\* The exception exit the direct call's computeExpression records with the
\* pass: made when the called body may raise, before the cost is looked at.
functionCallRaiseExit(function_body, recorded) ==
    recorded \/ mayRaiseException(function_body)

\* ExpressionFunctionCall.computeExpression
ComputeExpressionFunctionCall ==
    /\ stage \in {"visit", "direct"}
    /\ node.kind = "FunctionCall"
    /\ Step(computeExpressionFunctionCall(node, callee, experimental), "done")
    /\ raise_exit' = functionCallRaiseExit(callee, raise_exit)
    /\ UNCHANGED <<experimental, callee, call, history>>

\* No function creation is called at the site any more: nothing to do.
VisitOther ==
    /\ stage = "visit"
    /\ node.kind \notin {"Call", "FunctionCall"}
    /\ Step(Untouched(node), "done")
    /\ UNCHANGED <<experimental, callee, call, history, raise_exit>>

\* The pass is over; the next one starts.
FinishPass ==
    /\ stage = "done"
    /\ Len(history) < MaxPasses
    /\ history' = Append(history, [node |-> node, changed |-> changed,
                                   raise_exit |-> raise_exit])
    /\ stage' = IF Len(history) + 1 < MaxPasses THEN "visit" ELSE "end"
    /\ changed' = FALSE
    /\ raise_exit' = FALSE
    /\ tag' = "None"
    /\ UNCHANGED <<experimental, callee, call, node>>

(***************************************************************************)
(* Scopes: the module (scope 0) and the function and class bodies in it.   *)
(* A variable is its class, its owner and its name; the variable a         *)
(* MaybeLocalVariable wraps is the module variable of the same name.       *)
(***************************************************************************)
Scopes == 0..MaxScopes

Bodies == 1..MaxScopes

VariableNames == {"x", "__class__"}

Var(kind, owner, name) == [kind |-> kind, owner |-> owner, name |-> name]

NoVar == Var("None", 0, "")

LocalVariable(owner, name) == Var("Local", owner, name)

ParameterVariable(owner, name) == Var("Parameter", owner, name)

ModuleVariable(name) == Var("Module", 0, name)

MaybeLocalVariable(owner, maybe_variable) ==
    Var("MaybeLocal", owner, maybe_variable.name)

getMaybeVariable(v) == ModuleVariable(v.name)

isModuleVariable(v) == v.kind = "Module"

isMaybeLocalVariable(v) == v.kind = "MaybeLocal"

isParameterVariable(v) == v.kind = "Parameter"

\* ParameterVariable is a LocalVariable.
isLocalVariable(v) == v.kind \in {"Local", "Parameter"}

NothingProvided == [n \in VariableNames |-> NoVar]

\* ClosureGiverNodeBase
hasProvidedVariable(prov, s, name) == prov[s][name] # NoVar

registerProvidedVariable(prov, s, v) == [prov EXCEPT ![s][v.name] = v]

\* ClosureTakerMixin
hasTakenVariable(tk, s, name) == \E v \in tk[s] : v.name = name

getTakenVariable(tk, s, name) == CHOOSE v \in tk[s] : v.name = name

\* Mutant: local_locals is not set, and the variable is the one the
\* provider gives for the name.
createProvidedVariable_FromProvider(s, name) == LocalVariable(parent[s], name)

\* ExpressionFunctionBody.createProvidedVariable: local_locals is set in
\* every case the constructor lets through, so a local variable is made.
createProvidedVariable(s, name) == LocalVariable(s, name)

\* ClosureGiverNodeBase.getProvidedVariable: the provided variable, created
\* on demand. Returns the variable and the providing maps after it.
getProvidedVariable(prov, s, name) ==
    IF hasProvidedVariable(prov, s, name)
    THEN [result |-> prov[s][name], providing |-> prov]
    ELSE LET v == IF s = 0 THEN ModuleVariable(name)
                  ELSE createProvidedVariable(s, name)
         IN [result |-> v, providing |-> registerProvidedVariable(prov, s, v)]

\* getVariableForClosure of the module, of ExpressionFunctionBody and of
\* ExpressionClassBody. The module answers with its own variable; a function
\* body answers with what it provides and otherwise asks its provider; a
\* class body asks its provider, but for "__class__" from Python 3 on, where
\* it behaves as a function body.
RECURSIVE getVariableForClosure(_, _, _)
\* Mutant: the branch of the class body that answers "__class__" with a
\* temporary variable from Python 3.4 on is taken.
getVariableForClosure_ClassTempVariable(prov, s, name) ==
    IF s = 0 THEN getProvidedVariable(prov, 0, name)
    ELSE IF scope_kind[s] = "Class" /\ name = "__class__" /\
            python_version >= 340
    THEN [result |-> Var("Temp", s, name), providing |-> prov]
    ELSE IF scope_kind[s] = "Class" /\
            (name # "__class__" \/ python_version < 300)
    THEN getVariableForClosure(prov, parent[s], name)
    ELSE IF hasProvidedVariable(prov, s, name)
    THEN [result |-> prov[s][name], providing |-> prov]
    ELSE getVariableForClosure(prov, parent[s], name)

\* Mutant: a class body answers a closure lookup as a function body does.
getVariableForClosure_ClassProvides(prov, s, name) ==
    IF s = 0 THEN getProvidedVariable(prov, 0, name)
    ELSE IF hasProvidedVariable(prov, s, name)
    THEN [result |-> prov[s][name], providing |-> prov]
    ELSE getVariableForClosure(prov, parent[s], name)

\* Mutant: a function body that does not provide the name makes a variable
\* of its own for it, as an assignment does.
getVariableForClosure_CreatesBinding(prov, s, name) ==
    IF s = 0 THEN getProvidedVariable(prov, 0, name)
    ELSE IF scope_kind[s] = "Class" /\
            (name # "__class__" \/ python_version < 300)
    THEN getVariableForClosure(prov, parent[s], name)
    ELSE getProvidedVariable(prov, s, name)

getVariableForClosure(prov, s, name) ==
    IF s = 0 THEN getProvidedVariable(prov, 0, name)
    ELSE IF scope_kind[s] = "Class" /\
            (name # "__class__" \/ python_version < 300)
    THEN getVariableForClosure(prov, parent[s], name)
    ELSE IF hasProvidedVariable(prov, s, name)
    THEN [result |-> prov[s][name], providing |-> prov]
    ELSE getVariableForClosure(prov, parent[s], name)

\* ClosureTakerMixin.getClosureVariable: ask the provider; a maybe local
\* variable there means its module variable here; take what is not a module
\* variable.
getClosureVariable(prov, tk, s, name) ==
    LET found  == getVariableForClosure(prov, parent[s], name)
        result == IF isMaybeLocalVariable(found.result)
                  THEN getMaybeVariable(found.result) ELSE found.result
    IN [result |-> result, providing |-> found.providing,
        taken |-> IF ~isModuleVariable(result)
                  THEN [tk EXCEPT ![s] = @ \cup {result}] ELSE tk]

\* Mutant: the variable got from the closure is not registered.
registerClosureResult_Forgets(prov, s, result) == prov

\* What getVariableForReference registers for a variable got from the
\* closure: the variable itself unless it is a module variable.
registerClosureResult(prov, s, result) ==
    IF ~isModuleVariable(result) THEN registerProvidedVariable(prov, s, result)
    ELSE prov

\* Mutant: a module variable got from the closure is made a maybe local
\* variable in every body, unoptimized or not.
getVariableForReference_AlwaysMaybeLocal(prov, tk, s, name) ==
    IF hasProvidedVariable(prov, s, name)
    THEN [result |-> prov[s][name], providing |-> prov, taken |-> tk]
    ELSE LET c  == getClosureVariable(prov, tk, s, name)
             p1 == registerClosureResult(c.providing, s, c.result)
         IN IF isModuleVariable(c.result)
            THEN LET m == MaybeLocalVariable(s, c.result)
                 IN [result |-> m,
                     providing |-> registerProvidedVariable(p1, s, m),
                     taken |-> c.taken]
            ELSE [result |-> c.result, providing |-> p1, taken |-> c.taken]

\* Mutant: in an unoptimized body the module variable is registered, and
\* the maybe local variable made for it is only returned.
getVariableForReference_RegistersModuleVariable(prov, tk, s, name) ==
    IF hasProvidedVariable(prov, s, name)
    THEN [result |-> prov[s][name], providing |-> prov, taken |-> tk]
    ELSE LET c  == getClosureVariable(prov, tk, s, name)
             p1 == registerClosureResult(c.providing, s, c.result)
         IN IF unoptimized[s] /\ isModuleVariable(c.result)
            THEN [result |-> MaybeLocalVariable(s, c.result),
                  providing |-> registerProvidedVariable(p1, s, c.result),
                  taken |-> c.taken]
            ELSE [result |-> c.result, providing |-> p1, taken |-> c.taken]

\* ExpressionFunctionBody.getVariableForReference
getVariableForReference(prov, tk, s, name) ==
    IF hasProvidedVariable(prov, s, name)
    THEN [result |-> prov[s][name], providing |-> prov, taken |-> tk]
    ELSE LET c  == getClosureVariable(prov, tk, s, name)
             p1 == registerClosureResult(c.providing, s, c.result)
         IN IF unoptimized[s] /\ isModuleVariable(c.result)
            THEN LET m == MaybeLocalVariable(s, c.result)
                 IN [result |-> m,
                     providing |-> registerProvidedVariable(p1, s, m),
                     taken |-> c.taken]
            ELSE [result |-> c.result, providing |-> p1, taken |-> c.taken]

\* ExpressionFunctionBody.getVariableForAssignment
getVariableForAssignment(prov, tk, s, name) ==
    IF hasTakenVariable(tk, s, name)
    THEN [result |-> getTakenVariable(tk, s, name), providing |-> prov,
          taken |-> tk]
    ELSE LET g == getProvidedVariable(prov, s, name)
         IN [result |-> g.result, providing |-> g.providing, taken |-> tk]

(***************************************************************************)
(* SpecScope: bodies nested in the module, each function body with or      *)
(* without the parameter "x" (registered by the constructor), and name     *)
(* resolutions on them by the tree building.                               *)
(***************************************************************************)
IdleScope ==
    /\ parent = [s \in Scopes |-> 0]
    /\ scope_kind = [s \in Scopes |-> IF s = 0 THEN "Module" ELSE "Function"]
    /\ unoptimized = [s \in Scopes |-> FALSE]
    /\ providing = [s \in Scopes |-> NothingProvided]
    /\ taken = [s \in Scopes |-> {}]
    /\ last_op = [op |-> "none", scope |-> 0, name |-> "", result |-> NoVar,
                  count |-> 0]

\* ExpressionFunctionBody.__init__: the provider is set and the parameter
\* variables are registered as provided.
InitScope ==
    /\ python_version \in PythonVersions
    /\ parent \in [Scopes -> Scopes]
    /\ parent[0] = 0
    /\ \A s \in Bodies : parent[s] = s - 1
    /\ scope_kind \in [Scopes -> {"Module", "Function", "Class"}]
    /\ \A s \in Scopes : (scope_kind[s] = "Module") <=> (s = 0)
    /\ unoptimized \in [Scopes -> BOOLEAN]
    /\ ~unoptimized[0]
    /\ \E with_x \in SUBSET {s \in Bodies : scope_kind[s] = "Function"} :
         providing = [s \in Scopes |->
                        IF s \in with_x
                        THEN [NothingProvided EXCEPT
                                !["x"] = ParameterVariable(s, "x")]
                        ELSE NothingProvided]
    /\ taken = [s \in Scopes |-> {}]
    /\ last_op = [op |-> "none", scope |-> 0, name |-> "", result |-> NoVar,
                  count |-> 0]

Resolved(op, s, name, r) ==
    /\ providing' = r.providing
    /\ taken' = r.taken
    /\ last_op' = [op |-> op, scope |-> s, name |-> name, result |-> r.result,
                   count |-> last_op.count + 1]
    /\ UNCHANGED <<parent, scope_kind, unoptimized>>

\* A variable reference in body s is resolved.
VariableForReference(s, name) ==
    /\ last_op.count < MaxResolutions
    /\ Resolved("reference", s, name,
                getVariableForReference(providing, taken, s, name))

\* An assignment target in body s is resolved.
VariableForAssignment(s, name) ==
    /\ last_op.count < MaxResolutions
    /\ Resolved("assignment", s, name,
                getVariableForAssignment(providing, taken, s, name))

(***************************************************************************)
(* SpecRelease: addFunctionVariableReleases on one body, and a run of the  *)
(* body it leaves behind. The body under study is scope Self; OtherOwner   *)
(* stands for a body above it that owns the variables Self shares.         *)
(***************************************************************************)
Self == 1

OtherOwner == 2

ReleaseNames == <<"x", "y", "p">>

\* The variables a body can provide under a name: its own local or
\* parameter variable, a variable taken from the closure (owned by a body
\* above), or a maybe local variable.
VariablesNamed(name) ==
    {LocalVariable(Self, name), ParameterVariable(Self, name),
     LocalVariable(OtherOwner, name), ParameterVariable(OtherOwner, name),
     MaybeLocalVariable(Self, ModuleVariable(name))}

\* providing.values(): variables of distinct names, in registration order.
ProvidedSeqs ==
    UNION { { vs \in [1..n -> UNION {VariablesNamed(ReleaseNames[i]) :
                                       i \in 1..Len(ReleaseNames)}] :
                \A i, j \in 1..n : i # j => vs[i].name # vs[j].name } :
            n \in 0..MaxVariables }

ExitKinds == {"normal", "return", "exception"}

\* Mutant: every provided variable counts, as with getVariables.
getLocalVariables_All(function) == function.variables

\* ExpressionFunctionBody.getLocalVariables
getLocalVariables(function) ==
    SelectSeq(function.variables, isLocalVariable)

RECURSIVE collectReleases_Prepends(_, _, _, _)
\* The loop below, with each release put in front of the ones before.
collectReleases_Prepends(function, locals, i, releases) ==
    IF i > Len(locals) THEN releases
    ELSE IF locals[i].owner # Self
    THEN collectReleases_Prepends(function, locals, i + 1, releases)
    ELSE IF isGenerator(function) /\ isParameterVariable(locals[i])
    THEN collectReleases_Prepends(function, locals, i + 1, releases)
    ELSE collectReleases_Prepends(function, locals, i + 1,
                                  <<locals[i]>> \o releases)

RECURSIVE collectReleases(_, _, _, _)
\* The loop of addFunctionVariableReleases over the local variables: shared
\* variables and the parameters of generators are passed over, a release of
\* every other one is appended.
collectReleases(function, locals, i, releases) ==
    IF i > Len(locals) THEN releases
    ELSE IF locals[i].owner # Self
    THEN collectReleases(function, locals, i + 1, releases)
    ELSE IF isGenerator(function) /\ isParameterVariable(locals[i])
    THEN collectReleases(function, locals, i + 1, releases)
    ELSE collectReleases(function, locals, i + 1,
                         Append(releases, locals[i]))

\* Mutant: the releases come out in the reverse order.
functionVariableReleases_Prepends(function) ==
    collectReleases_Prepends(function, getLocalVariables(function), 1, <<>>)

\* addFunctionVariableReleases: the releases list.
functionVariableReleases(function) ==
    collectReleases(function, getLocalVariables(function), 1, <<>>)

\* makeTryFinallyStatement around the body, when there is a release.
wrapBody(body, releases) ==
    IF releases # <<>>
    THEN [frame |-> FALSE, tried |-> TRUE, final |-> releases]
    ELSE body

IdleRelease ==
    /\ rel_function = [kind |-> "Function", variables |-> <<>>]
    /\ rel_body = [frame |-> FALSE, tried |-> FALSE, final |-> <<>>]
    /\ rel_pc = "none"
    /\ rel_exit = "none"
    /\ rel_released = <<>>

\* A body as the tree building and the optimization leave it.
InitRelease ==
    /\ python_version \in PythonVersions
    /\ rel_function \in [kind : {"Function", "Generator", "Class"},
                          variables : ProvidedSeqs]
    /\ rel_body \in [frame : BOOLEAN, tried : {FALSE}, final : {<<>>}]
    /\ rel_pc = "built"
    /\ rel_exit = "none"
    /\ rel_released = <<>>

\* addFunctionVariableReleases(function), once per body.
AddFunctionVariableReleases ==
    /\ rel_pc = "built"
    /\ rel_body' = wrapBody(rel_body, functionVariableReleases(rel_function))
    /\ rel_pc' = "injected"
    /\ UNCHANGED <<rel_function, rel_exit, rel_released>>

\* The body is entered.
EnterBody ==
    /\ rel_pc = "injected"
    /\ rel_pc' = "body"
    /\ UNCHANGED <<rel_function, rel_body, rel_exit, rel_released>>

\* The original statements are left: at their end, by a return, or by an
\* exception. A try/finally around them runs its final block first.
LeaveTried(how) ==
    /\ rel_pc = "body"
    /\ rel_exit' = how
    /\ rel_pc' = IF rel_body.tried THEN "final" ELSE "exited"
    /\ UNCHANGED <<rel_function, rel_body, rel_released>>

\* The next release statement of the final block; after the last one the
\* body is left the way the tried block was.
ReleaseVariable ==
    /\ rel_pc = "final"
    /\ LET k == Len(rel_released) + 1
       IN /\ rel_released' = Append(rel_released, rel_body.final[k])
          /\ rel_pc' = IF k = Len(rel_body.final) THEN "exited" ELSE "final"
    /\ UNCHANGED <<rel_function, rel_body, rel_exit>>

(***************************************************************************)
(* SpecQualname: bodies are built below the module, one after the other,   *)
(* and asked for their qualified name.                                     *)
(***************************************************************************)
NoBody == [kind |-> "None", provider |-> 0, name |-> "", is_lambda |-> FALSE,
           is_genexpr |-> FALSE, qualname_provider |-> 0]

ModuleNode == [kind |-> "Module", provider |-> 0, name |-> "__main__",
               is_lambda |-> FALSE, is_genexpr |-> FALSE,
               qualname_provider |-> 0]

QualScopes == 0..MaxBodies

\* The names the tree building hands to the constructor: of a function, a
\* lambda and a generator expression, and of a class.
FunctionNames == {"f", "<lambda>", "<genexpr>"}

ClassNames == {"C"}

NoQualname == "?"

isCompiledPythonModule(n) == n.kind = "Module"

isExpressionOutlineBody(n) == n.kind = "Outline"

\* The loop at the head of the constructors: the provider is the first one
\* upwards that is no outline body.
RECURSIVE skipOutlineBodies(_, _)
skipOutlineBodies(nodes, provider) ==
    IF isExpressionOutlineBody(nodes[provider])
    THEN skipOutlineBodies(nodes, nodes[provider].provider)
    ELSE provider

\* ExpressionFunctionBody.__init__ with ExpressionFunctionBodyBase.__init__,
\* as far as the names go.
newFunctionBody(nodes, provider, name, is_class) ==
    LET p == skipOutlineBodies(nodes, provider)
    IN [kind |-> IF is_class THEN "Class" ELSE "Function",
        provider |-> p,
        name |-> IF name = "<lambda>" THEN "lambda"
                 ELSE IF name = "<genexpr>" THEN ""
                 ELSE name,
        is_lambda |-> name = "<lambda>",
        is_genexpr |-> name = "<genexpr>",
        qualname_provider |-> IF python_version >= 340 THEN p ELSE 0]

\* ExpressionFunctionBody.getFunctionName
getFunctionName(n) ==
    IF n.is_lambda THEN "<lambda>"
    ELSE IF n.is_genexpr THEN "<genexpr>"
    ELSE n.name

getParentVariableProvider(nodes, b) == nodes[b].provider

\* The provider getFunctionQualname goes by.
qualnameProvider(nodes, b) ==
    IF python_version < 340 THEN getParentVariableProvider(nodes, b)
    ELSE nodes[b].qualname_provider

RECURSIVE getFunctionQualname_NoLocals(_, _)
\* Mutant: the name is joined to the provider's by a dot for every provider.
getFunctionQualname_NoLocals(nodes, b) ==
    LET function_name == getFunctionName(nodes[b])
        provider      == qualnameProvider(nodes, b)
    IN IF isCompiledPythonModule(nodes[provider]) THEN function_name
       ELSE getFunctionQualname_NoLocals(nodes, provider) \o "."
              \o function_name

RECURSIVE getFunctionQualname(_, _)
\* ExpressionFunctionBodyBase.getFunctionQualname
getFunctionQualname(nodes, b) ==
    LET function_name == getFunctionName(nodes[b])
        provider      == qualnameProvider(nodes, b)
    IN IF isCompiledPythonModule(nodes[provider]) THEN function_name
       ELSE IF isExpressionClassBody(nodes[provider])
       THEN getFunctionQualname(nodes, provider) \o "." \o function_name
       ELSE getFunctionQualname(nodes, provider) \o ".<locals>."
              \o function_name

IdleQualname ==
    /\ q_nodes = [b \in QualScopes |-> IF b = 0 THEN ModuleNode ELSE NoBody]
    /\ q_count = 0
    /\ q_values = [b \in QualScopes |-> NoQualname]

\* Only the module is there.
InitQualname ==
    /\ python_version \in PythonVersions
    /\ IdleQualname

\* A function or class body is built in the scope given as provider.
NewFunctionBody(provider, name, is_class) ==
    /\ q_count < MaxBodies
    /\ provider \in 0..q_count
    /\ q_count' = q_count + 1
    /\ q_nodes' = [q_nodes EXCEPT ![q_count + 1] =
                     newFunctionBody(q_nodes, provider, name, is_class)]
    /\ UNCHANGED q_values

\* An outline body is put into a function or class body or the module.
NewOutlineBody(provider) ==
    /\ q_count < MaxBodies
    /\ provider \in 0..q_count
    /\ q_count' = q_count + 1
    /\ q_nodes' = [q_nodes EXCEPT ![q_count + 1] =
                     [NoBody EXCEPT !.kind = "Outline",
                                    !.provider = provider]]
    /\ UNCHANGED q_values

\* body.getFunctionQualname()
GetFunctionQualname(b) ==
    /\ b \in 1..q_count
    /\ q_nodes[b].kind \in {"Function", "Class"}
    /\ q_values' = [q_values EXCEPT ![b] = getFunctionQualname(q_nodes, b)]
    /\ UNCHANGED <<q_nodes, q_count>>

(***************************************************************************)
(* SpecGenerator: one generator object made by the function               *)
(* implementation, and the run of its context function up to the exit      *)
(* code.                                                                   *)
(***************************************************************************)
NULL == "NULL"

YieldedValues == {"v1", "v2"}

SentValues == {"None", "s1"}

IdleGenerator ==
    /\ gen_exits = [exception_exit |-> TRUE, return_exit |-> FALSE]
    /\ gen_status = "None"
    /\ gen_pc = "none"
    /\ m_yielded = NULL
    /\ gen_error = "none"
    /\ gen_sent = "None"
    /\ gen_resumes = 0

\* Nuitka_Generator_New in the function implementation: the object is there,
\* the context function not entered. The context function ends in the
\* exception exit code or, for a body that cannot come to its end and cannot
\* raise, in the no exception exit code, and has the return exit code when
\* the body has a return statement.
InitGenerator ==
    /\ python_version \in PythonVersions
    /\ gen_exits \in [exception_exit : BOOLEAN, return_exit : BOOLEAN]
    /\ gen_exits.exception_exit \/ gen_exits.return_exit
    /\ gen_status = "Created"
    /\ gen_pc = "entry"
    /\ m_yielded = NULL
    /\ gen_error = "none"
    /\ gen_sent = "None"
    /\ gen_resumes = 0

\* The generator is resumed with a value: the context function is entered
\* or goes on behind the yield it was parked at.
Resume(value) ==
    /\ gen_status \in {"Created", "Suspended"}
    /\ gen_resumes < MaxResumes
    /\ gen_status = "Created" => value = "None"
    /\ gen_status' = "Running"
    /\ gen_pc' = "body"
    /\ gen_sent' = value
    /\ gen_resumes' = gen_resumes + 1
    /\ m_yielded' = NULL
    /\ UNCHANGED <<gen_exits, gen_error>>

\* A yield expression of the body hands a value out and parks the body.
Yield(value) ==
    /\ gen_status = "Running"
    /\ gen_pc = "body"
    /\ gen_status' = "Suspended"
    /\ gen_pc' = "yield"
    /\ m_yielded' = value
    /\ UNCHANGED <<gen_exits, gen_error, gen_sent, gen_resumes>>

\* Mutant: the end of the body is also come to from a parked yield.
FallOffEnd_WhileSuspended ==
    /\ gen_status \in {"Running", "Suspended"}
    /\ gen_pc \in {"body", "yield"}
    /\ gen_exits.exception_exit
    /\ gen_status' = "Completed"
    /\ gen_pc' = "returned"
    /\ gen_error' = "StopIteration"
    /\ m_yielded' = NULL
    /\ UNCHANGED <<gen_exits, gen_sent, gen_resumes>>

\* template_generator_exception_exit, up to its first return: the body came
\* to its end, StopIteration is set and nothing is yielded.
FallOffEnd ==
    /\ gen_status = "Running"
    /\ gen_pc = "body"
    /\ gen_exits.exception_exit
    /\ gen_status' = "Completed"
    /\ gen_pc' = "returned"
    /\ gen_error' = "StopIteration"
    /\ m_yielded' = NULL
    /\ UNCHANGED <<gen_exits, gen_sent, gen_resumes>>

\* template_generator_return_exit, from function_return_exit on: a return
\* statement of the body; StopIteration is set, from Python 3.3 on with the
\* return value.
ReturnExit ==
    /\ gen_status = "Running"
    /\ gen_pc = "body"
    /\ gen_exits.return_exit
    /\ gen_status' = "Completed"
    /\ gen_pc' = "returned"
    /\ gen_error' = IF python_version < 330 THEN "StopIteration"
                    ELSE "StopIteration(value)"
    /\ m_yielded' = NULL
    /\ UNCHANGED <<gen_exits, gen_sent, gen_resumes>>

\* Mutant: the exception exit is also come to after the body has completed.
ExceptionExit_AfterCompleted ==
    /\ gen_status \in {"Running", "Completed"}
    /\ gen_pc \in {"body", "returned"}
    /\ gen_exits.exception_exit
    /\ gen_status' = "Failed"
    /\ gen_pc' = "returned"
    /\ gen_error' = "exception"
    /\ m_yielded' = NULL
    /\ UNCHANGED <<gen_exits, gen_sent, gen_resumes>>

\* template_generator_exception_exit, from function_exception_exit on: an
\* exception left the body; it is restored and nothing is yielded.
ExceptionExit ==
    /\ gen_status = "Running"
    /\ gen_pc = "body"
    /\ gen_exits.exception_exit
    /\ gen_status' = "Failed"
    /\ gen_pc' = "returned"
    /\ gen_error' = "exception"
    /\ m_yielded' = NULL
    /\ UNCHANGED <<gen_exits, gen_sent, gen_resumes>>

(***************************************************************************)
(* SpecBuild: buildFunctionNode and buildAsyncFunctionNode on the function *)
(* definitions of one module, and the construction of class bodies. The    *)
(* module keeps the bodies registered with it in the order of addFunction. *)
(***************************************************************************)
Statement(kind, expression, ref) ==
    [kind |-> kind, expression |-> expression, ref |-> ref]

ExpressionStatement == Statement("expression", "call", 0)

YieldStatement == Statement("expression", "yield", 0)

\* StatementReturn of ExpressionConstantRef(None), as the final return is.
ReturnNone == Statement("return", "None", 0)

\* StatementReturn of ExpressionCoroutineCreation(coroutine_body = b).
ReturnCoroutineCreation(b) == Statement("return", "CoroutineCreation", b)

\* The statements of a definition after extractDocFromBody.
FunctionStatements ==
    LET ReturnValue == Statement("return", "value", 0)
        RaiseStatement == Statement("raise", "error", 0)
    IN { <<>>, <<ExpressionStatement>>, <<ReturnValue>>,
         <<ExpressionStatement, RaiseStatement>>,
         <<ReturnValue, ExpressionStatement>>,
         <<YieldStatement>>, <<YieldStatement, ReturnValue>> }

\* The definitions handed to the builders: node.args.args,
\* len(node.args.defaults), the statements and the source reference.
DefinitionNodes ==
    [args : {<<>>, <<"a">>, <<"a", "b">>, <<"a", "a">>},
     defaults : 0..MaxArgs, statements : FunctionStatements,
     source_ref : {"m.py:1", "m.py:5"}]

\* Helpers.detectFunctionBodyKind: a yield makes a generator.
detectFunctionBodyKind(statements) ==
    IF \E i \in 1..Len(statements) : statements[i] = YieldStatement
    THEN "Generator" ELSE "Function"

NoStatements == [kind |-> "None", wraps_frame |-> FALSE, statements |-> <<>>]

\* Helpers.buildStatementsNode with frame = True: None for no statements,
\* a StatementsFrame otherwise.
buildStatementsNode(statements) ==
    IF statements = <<>> THEN NoStatements
    ELSE [kind |-> "Frame", wraps_frame |-> FALSE, statements |-> statements]

\* Helpers.makeStatementsSequenceFromStatement
makeStatementsSequenceFromStatement(statement) ==
    [kind |-> "Sequence", wraps_frame |-> FALSE, statements |-> <<statement>>]

\* StatementsSequence.isStatementAborting: the last statement aborts.
isStatementAborting(body) ==
    /\ Len(body.statements) > 0
    /\ body.statements[Len(body.statements)].kind \in {"return", "raise"}

\* Mutant: the return is only made for a body without statements.
_insertFinalReturnStatement_OnlyForNone(function_statements_body) ==
    IF function_statements_body.kind = "None"
    THEN makeStatementsSequenceFromStatement(ReturnNone)
    ELSE function_statements_body

_insertFinalReturnStatement(function_statements_body) ==
    IF function_statements_body.kind = "None"
    THEN makeStatementsSequenceFromStatement(ReturnNone)
    ELSE IF ~isStatementAborting(function_statements_body)
    THEN [function_statements_body EXCEPT
            !.statements = Append(@, ReturnNone)]
    ELSE function_statements_body

\* "if function_statements_body.isStatementsFrame()": the frame becomes the
\* only statement of a statements sequence.
wrapStatementsFrame(function_statements_body) ==
    IF function_statements_body.kind = "Frame"
    THEN [function_statements_body EXCEPT
            !.kind = "Sequence", !.wraps_frame = TRUE]
    ELSE function_statements_body

\* The ParameterSpec that buildParameterSpec fills from the definition.
ParameterSpec(n) == [normal_args |-> n.args, default_count |-> n.defaults]

NoMessage == "None"

\* ParameterSpec.checkValid: the message, or None for a valid spec.
checkValidMessage(result) ==
    IF \E i, j \in 1..Len(result.normal_args) :
          i # j /\ result.normal_args[i] = result.normal_args[j]
    THEN "duplicate argument in function definition"
    ELSE IF result.default_count > Len(result.normal_args)
    THEN "more defaults than positional arguments"
    ELSE NoMessage

\* CompiledPythonModule.addFunction
addFunction(functions, b) == Append(functions, b)

\* A builder works on st: the bodies and the registry of the module, and
\* the message of the syntax error raised, if any.
\* ExpressionFunctionBody.__init__ (is_class or not, generator or not): the
\* body, its child "body" not yet set, registers itself with the module.
ExpressionFunctionBody(st, kind, provider) ==
    [st EXCEPT !.bodies = Append(@, [kind |-> kind, provider |-> provider,
                                     body |-> NoStatements]),
               !.functions = addFunction(@, Len(st.bodies) + 1)]

\* ExpressionCoroutineBody.__init__: ExpressionFunctionBodyBase.__init__ and
\* nothing else.
ExpressionCoroutineBody(st, provider) ==
    [st EXCEPT !.bodies = Append(@, [kind |-> "Coroutine",
                                     provider |-> provider,
                                     body |-> NoStatements])]

\* Mutant: the function body is made first and the parameter spec checked
\* after it.
makeFunctionBody_BodyFirst(st, kind, provider, n) ==
    LET made == ExpressionFunctionBody(st, kind, provider)
    IN [made EXCEPT !.error = checkValidMessage(ParameterSpec(n))]

\* The constructor call of the builders: its argument buildParameterSpec is
\* evaluated first, and raises the syntax error for an invalid spec.
makeFunctionBody(st, kind, provider, n) ==
    LET message == checkValidMessage(ParameterSpec(n))
    IN IF message # NoMessage THEN [st EXCEPT !.error = message]
       ELSE ExpressionFunctionBody(st, kind, provider)

setBody(st, b, body) == [st EXCEPT !.bodies[b].body = body]

IdleBuild ==
    /\ b_bodies = <<>>
    /\ b_functions = <<>>
    /\ b_creations = <<>>
    /\ b_result = [tag |-> "none", message |-> NoMessage, source_ref |-> "",
                   bodies |-> <<>>,
                   call |-> [args |-> <<>>, defaults |-> 0, source_ref |-> ""]]

\* SyntaxErrors.raiseSyntaxError(message, source_ref) leaves the builder.
RaisedSyntaxError(st, n) ==
    /\ b_result' = [tag |-> "SyntaxError", message |-> st.error,
                    source_ref |-> n.source_ref, bodies |-> <<>>,
                    call |-> [args |-> n.args, defaults |-> n.defaults,
                              source_ref |-> n.source_ref]]
    /\ b_bodies' = st.bodies
    /\ b_functions' = st.functions
    /\ UNCHANGED b_creations

\* The builder returned the assignment of the function creation.
Built(st, n, function_ref, made) ==
    /\ b_result' = [tag |-> "built", message |-> NoMessage,
                    source_ref |-> "", bodies |-> made,
                    call |-> [args |-> n.args, defaults |-> n.defaults,
                              source_ref |-> n.source_ref]]
    /\ b_bodies' = st.bodies
    /\ b_functions' = st.functions
    /\ b_creations' = Append(b_creations, [function_ref |-> function_ref])

BuildFunctionNode(provider, n) ==
    /\ Len(b_bodies) < MaxBuilds
    /\ provider \in 0..Len(b_bodies)
    /\ LET function_kind == detectFunctionBodyKind(n.statements)
           st0 == [bodies |-> b_bodies, functions |-> b_functions,
                   error |-> NoMessage]
           st1 == makeFunctionBody(st0, function_kind, provider, n)
           function_body == Len(b_bodies) + 1
           built == buildStatementsNode(n.statements)
           function_statements_body ==
               IF function_kind = "Generator" THEN built
               ELSE _insertFinalReturnStatement(built)
           st2 == setBody(st1, function_body,
                          wrapStatementsFrame(function_statements_body))
       IN IF st1.error # NoMessage THEN RaisedSyntaxError(st1, n)
          ELSE Built(st2, n, function_body, <<function_body>>)

\* Mutant: the function creation is made for the coroutine body.
asyncFunctionRef_CoroutineBody(creator_function_body, function_body) ==
    function_body

\* The function_ref of the function creation of an async definition.
asyncFunctionRef(creator_function_body, function_body) ==
    creator_function_body

BuildAsyncFunctionNode(provider, n) ==
    /\ Len(b_bodies) < MaxBuilds
    /\ provider \in 0..Len(b_bodies)
    /\ detectFunctionBodyKind(n.statements) = "Function"
    /\ LET st0 == [bodies |-> b_bodies, functions |-> b_functions,
                   error |-> NoMessage]
           st1 == makeFunctionBody(st0, "Function", provider, n)
           creator_function_body == Len(b_bodies) + 1
           st2 == ExpressionCoroutineBody(st1, creator_function_body)
           function_body == Len(b_bodies) + 2
           function_statements_body ==
               _insertFinalReturnStatement(buildStatementsNode(n.statements))
           st3 == setBody(st2, function_body,
                          wrapStatementsFrame(function_statements_body))
           st4 == setBody(st3, creator_function_body,
                          makeStatementsSequenceFromStatement(
                              ReturnCoroutineCreation(function_body)))
       IN IF st1.error # NoMessage THEN RaisedSyntaxError(st1, n)
          ELSE Built(st4, n, asyncFunctionRef(creator_function_body,
                                              function_body),
                     <<creator_function_body, function_body>>)

\* A class body is made: ExpressionClassBody has the constructor of
\* ExpressionFunctionBody, called with is_class = True.
NewClassBody(provider) ==
    /\ Len(b_bodies) < MaxBuilds
    /\ provider \in 0..Len(b_bodies)
    /\ LET st == ExpressionFunctionBody(
                     [bodies |-> b_bodies, functions |-> b_functions,
                      error |-> NoMessage], "Class", provider)
       IN /\ b_bodies' = st.bodies
          /\ b_functions' = st.functions
          /\ b_result' = [tag |-> "class", message |-> NoMessage,
                          source_ref |-> "", bodies |-> <<Len(b_bodies) + 1>>,
                          call |-> [args |-> <<>>, defaults |-> 0,
                                    source_ref |-> ""]]
          /\ UNCHANGED b_creations

(***************************************************************************)
(* SpecFlags: the indicators of one body, from its construction on, under  *)
(* the marking calls of the tree building and of the optimization.         *)
(***************************************************************************)
\* The indicators as ExpressionFunctionBody.__init__ sets them.
NoFlags ==
    [has_super |-> FALSE, return_exception |-> FALSE,
     needs_creation |-> FALSE, needs_direct |-> FALSE,
     cross_module_use |-> FALSE]

IdleFlags ==
    /\ fl_kind = "None"
    /\ fl_flags = NoFlags
    /\ fl_return_exit = 0

\* ExpressionFunctionBody.__init__, and ExpressionGeneratorFunctionBody's
\* after it: every indicator is False.
NewFlaggedBody(kind) ==
    /\ fl_kind = "None"
    /\ fl_kind' = kind
    /\ fl_flags' = NoFlags
    /\ fl_return_exit' = 0

markAsNeedsCreation ==
    /\ fl_kind # "None"
    /\ fl_flags' = [fl_flags EXCEPT !.needs_creation = TRUE]
    /\ UNCHANGED <<fl_kind, fl_return_exit>>

markAsDirectlyCalled ==
    /\ fl_kind # "None"
    /\ fl_flags' = [fl_flags EXCEPT !.needs_direct = TRUE]
    /\ UNCHANGED <<fl_kind, fl_return_exit>>

markAsCrossModuleUsed ==
    /\ fl_kind # "None"
    /\ fl_flags' = [fl_flags EXCEPT !.cross_module_use = TRUE]
    /\ UNCHANGED <<fl_kind, fl_return_exit>>

markAsClassClosureTaker ==
    /\ fl_kind # "None"
    /\ fl_flags' = [fl_flags EXCEPT !.has_super = TRUE]
    /\ UNCHANGED <<fl_kind, fl_return_exit>>

markAsExceptionReturnValue ==
    /\ fl_kind # "None"
    /\ fl_flags' = [fl_flags EXCEPT !.return_exception = TRUE]
    /\ UNCHANGED <<fl_kind, fl_return_exit>>

\* Mutant: the value given replaces the level.
markAsNeedsGeneratorReturnHandling_Assigns(value) ==
    /\ fl_kind = "Generator"
    /\ fl_return_exit' = value
    /\ UNCHANGED <<fl_kind, fl_flags>>

\* max(self.needs_generator_return_exit, value), False counting as 0.
markAsNeedsGeneratorReturnHandling(value) ==
    /\ fl_kind = "Generator"
    /\ fl_return_exit' = IF value > fl_return_exit THEN value
                         ELSE fl_return_exit
    /\ UNCHANGED <<fl_kind, fl_flags>>

(***************************************************************************)
(* SpecMutation: function bodies nested in the module, the binding of the  *)
(* variable references in them, and the calls by which the optimization    *)
(* removes and demotes their variables. A failed assertion and a KeyError  *)
(* leave the call at the statement that raised: what ran before it stays.  *)
(***************************************************************************)
MutationNames == {"x"}

NoError == ""

\* The variables the optimization may call a body with: what the body
\* provides or takes, and the module variable.
MutationVariables(s) ==
    ({providing[s][n] : n \in VariableNames} \ {NoVar})
    \cup taken[s] \cup {ModuleVariable(n) : n \in MutationNames}

\* ExpressionFunctionBody.removeClosureVariable: the assertion that the
\* variable is among providing.values(), the deletion under its name, the
\* assertion on parameter variables, and the removal from taken.
removeClosureVariable(prov, tk, s, v) ==
    LET failed == [providing |-> prov, taken |-> tk,
                   error |-> "AssertionError"]
        p1 == [prov EXCEPT ![s][v.name] = NoVar]
    IN IF \A n \in VariableNames : prov[s][n] # v THEN failed
       ELSE IF isParameterVariable(v) /\ v.owner = s
       THEN [failed EXCEPT !.providing = p1]
       ELSE IF v \notin tk[s]
       THEN [failed EXCEPT !.providing = p1, !.error = "KeyError"]
       ELSE [providing |-> p1, taken |-> [tk EXCEPT ![s] = @ \ {v}],
             error |-> NoError]

\* ExpressionFunctionBody.removeUserVariable
removeUserVariable(prov, tk, s, v) ==
    LET failed == [providing |-> prov, taken |-> tk,
                   error |-> "AssertionError"]
        p1 == [prov EXCEPT ![s][v.name] = NoVar]
    IN IF \A n \in VariableNames : prov[s][n] # v THEN failed
       ELSE IF isParameterVariable(v) /\ v.owner = s
       THEN [failed EXCEPT !.providing = p1]
       ELSE [providing |-> p1, taken |-> tk, error |-> NoError]

\* updateVariableUsage(provider, old_variable, new_variable): the variable
\* references of the body are reissued against the new variable.
updateVariableUsage(sites, s, old_variable, new_variable) ==
    [sites EXCEPT ![s] = [i \in 1..Len(@) |->
                            IF @[i] = old_variable THEN new_variable
                            ELSE @[i]]]

\* VariableRegistry.addVariableUsage
addVariableUsage(users, v, s) == users \cup {<<v, s>>}

\* Mutant: the variable stays taken and the references stay as they are.
demoteClosureVariable_ProvidingOnly(prov, tk, sites, users, s, v) ==
    LET failed == [providing |-> prov, taken |-> tk, use_sites |-> sites,
                   usage |-> users, error |-> "AssertionError"]
        new_variable == LocalVariable(s, v.name)
    IN IF ~isLocalVariable(v) THEN failed
       ELSE IF v \notin tk[s] THEN [failed EXCEPT !.error = "KeyError"]
       ELSE IF v.owner = s THEN failed
       ELSE [providing |-> registerProvidedVariable(prov, s, new_variable),
             taken |-> tk, use_sites |-> sites,
             usage |-> addVariableUsage(users, new_variable, s),
             error |-> NoError]

\* Mutant: the assertions are left out, and a variable that is not taken
\* is demoted as well.
demoteClosureVariable_Unchecked(prov, tk, sites, users, s, v) ==
    LET new_variable == LocalVariable(s, v.name)
    IN [providing |-> registerProvidedVariable(prov, s, new_variable),
        taken |-> [tk EXCEPT ![s] = @ \ {v}],
        use_sites |-> updateVariableUsage(sites, s, v, new_variable),
        usage |-> addVariableUsage(users, new_variable, s),
        error |-> NoError]

\* ExpressionFunctionBody.demoteClosureVariable: the assertion on local
\* variables, the removal from taken, the assertion on the owner, and the
\* demotion.
demoteClosureVariable(prov, tk, sites, users, s, v) ==
    LET failed == [providing |-> prov, taken |-> tk, use_sites |-> sites,
                   usage |-> users, error |-> "AssertionError"]
        t1 == [tk EXCEPT ![s] = @ \ {v}]
        new_variable == LocalVariable(s, v.name)
    IN IF ~isLocalVariable(v) THEN failed
       ELSE IF v \notin tk[s] THEN [failed EXCEPT !.error = "KeyError"]
       ELSE IF v.owner = s THEN [failed EXCEPT !.taken = t1]
       ELSE [providing |-> registerProvidedVariable(prov, s, new_variable),
             taken |-> t1,
             use_sites |-> updateVariableUsage(sites, s, v, new_variable),
             usage |-> addVariableUsage(users, new_variable, s),
             error |-> NoError]

IdleMutation ==
    /\ use_sites = [s \in Scopes |-> <<>>]
    /\ usage = {}
    /\ mut_error = NoError

\* The bodies are function bodies, each with or without the parameter "x"
\* its constructor registered.
InitMutation ==
    /\ python_version = 350
    /\ parent = [s \in Scopes |-> IF s = 0 THEN 0 ELSE s - 1]
    /\ scope_kind = [s \in Scopes |-> IF s = 0 THEN "Module" ELSE "Function"]
    /\ unoptimized \in [Scopes -> BOOLEAN]
    /\ ~unoptimized[0]
    /\ \E with_x \in SUBSET Bodies :
         providing = [s \in Scopes |->
                        IF s \in with_x
                        THEN [NothingProvided EXCEPT
                                !["x"] = ParameterVariable(s, "x")]
                        ELSE NothingProvided]
    /\ taken = [s \in Scopes |-> {}]
    /\ last_op = [op |-> "none", scope |-> 0, name |-> "", result |-> NoVar,
                  count |-> 0]
    /\ IdleMutation

Called(op, s, name, result) ==
    /\ last_op' = [op |-> op, scope |-> s, name |-> name, result |-> result,
                   count |-> last_op.count + 1]
    /\ UNCHANGED <<parent, scope_kind, unoptimized>>

\* A variable reference of body s is bound to its variable.
BindVariableRef(s, name) ==
    /\ last_op.count < MaxResolutions
    /\ LET r == getVariableForReference(providing, taken, s, name)
       IN /\ Called("reference", s, name, r.result)
          /\ providing' = r.providing
          /\ taken' = r.taken
          /\ use_sites' = [use_sites EXCEPT ![s] = Append(@, r.result)]
          /\ mut_error' = NoError
          /\ UNCHANGED usage

\* An assignment target of body s is bound to its variable.
BindTargetVariableRef(s, name) ==
    /\ last_op.count < MaxResolutions
    /\ LET r == getVariableForAssignment(providing, taken, s, name)
       IN /\ Called("assignment", s, name, r.result)
          /\ providing' = r.providing
          /\ taken' = r.taken
          /\ use_sites' = [use_sites EXCEPT ![s] = Append(@, r.result)]
          /\ mut_error' = NoError
          /\ UNCHANGED usage

\* getVariableForClosure of body s, as the closure takers below it call it.
VariableForClosure(s, name) ==
    /\ last_op.count < MaxResolutions
    /\ LET r == getVariableForClosure(providing, s, name)
       IN /\ Called("closure", s, name, r.result)
          /\ providing' = r.providing
          /\ mut_error' = NoError
          /\ UNCHANGED <<taken, use_sites, usage>>

RemoveClosureVariable(s, v) ==
    /\ last_op.count < MaxResolutions
    /\ LET r == removeClosureVariable(providing, taken, s, v)
       IN /\ Called("removeClosure", s, v.name, v)
          /\ providing' = r.providing
          /\ taken' = r.taken
          /\ mut_error' = r.error
          /\ UNCHANGED <<use_sites, usage>>

RemoveUserVariable(s, v) ==
    /\ last_op.count < MaxResolutions
    /\ LET r == removeUserVariable(providing, taken, s, v)
       IN /\ Called("removeUser", s, v.name, v)
          /\ providing' = r.providing
          /\ taken' = r.taken
          /\ mut_error' = r.error
          /\ UNCHANGED <<use_sites, usage>>

DemoteClosureVariable(s, v) ==
    /\ last_op.count < MaxResolutions
    /\ LET r == demoteClosureVariable(providing, taken, use_sites, usage, s, v)
       IN /\ Called("demote", s, v.name, v)
          /\ providing' = r.providing
          /\ taken' = r.taken
          /\ use_sites' = r.use_sites
          /\ usage' = r.usage
          /\ mut_error' = r.error

(***************************************************************************)
(* The specifications.                                                     *)
(***************************************************************************)
\* What the steps of one machine leave alone.
othersCreation == <<varsVersion, varsCall, varsScope, varsRelease,
                    varsQualname, varsGenerator, varsBuild, varsFlags,
                    varsMutation>>

othersCall == <<varsVersion, varsCreation, varsScope, varsRelease,
                varsQualname, varsGenerator, varsBuild, varsFlags,
                varsMutation>>

othersScope == <<varsVersion, varsCreation, varsCall, varsRelease,
                 varsQualname, varsGenerator, varsBuild, varsFlags,
                 varsMutation>>

othersRelease == <<varsVersion, varsCreation, varsCall, varsScope,
                   varsQualname, varsGenerator, varsBuild, varsFlags,
                   varsMutation>>

othersQualname == <<varsVersion, varsCreation, varsCall, varsScope,
                    varsRelease, varsGenerator, varsBuild, varsFlags,
                    varsMutation>>

othersGenerator == <<varsVersion, varsCreation, varsCall, varsScope,
                     varsRelease, varsQualname, varsBuild, varsFlags,
                     varsMutation>>

othersBuild == <<varsVersion, varsCreation, varsCall, varsScope,
                 varsRelease, varsQualname, varsGenerator, varsFlags,
                 varsMutation>>

othersFlags == <<varsVersion, varsCreation, varsCall, varsScope,
                 varsRelease, varsQualname, varsGenerator, varsBuild,
                 varsMutation>>

\* The steps of SpecMutation move the scopes as well.
othersMutation == <<varsVersion, varsCreation, varsCall, varsRelease,
                    varsQualname, varsGenerator, varsBuild, varsFlags>>

NextCreation ==
    \/ CreateFunctionCreation /\ UNCHANGED othersCreation
    \/ ComputeExpressionCreation /\ UNCHANGED othersCreation

InitSpecCreation ==
    /\ InitCreation
    /\ IdleCall /\ IdleScope /\ IdleRelease /\ IdleQualname /\ IdleGenerator
    /\ IdleBuild /\ IdleFlags /\ IdleMutation

SpecCreation == InitSpecCreation /\ [][NextCreation]_vars

NextCall ==
    \/ ComputeExpressionCall /\ UNCHANGED othersCall
    \/ ComputeExpressionFunctionCall /\ UNCHANGED othersCall
    \/ VisitOther /\ UNCHANGED othersCall
    \/ FinishPass /\ UNCHANGED othersCall

InitSpecCall ==
    /\ InitCall
    /\ IdleCreation /\ IdleScope /\ IdleRelease /\ IdleQualname
    /\ IdleGenerator /\ IdleBuild /\ IdleFlags /\ IdleMutation

SpecCall == InitSpecCall /\ [][NextCall]_vars

NextScope ==
    \/ \E s \in Bodies, name \in VariableNames :
         VariableForReference(s, name) /\ UNCHANGED othersScope
    \/ \E s \in Bodies, name \in VariableNames :
         VariableForAssignment(s, name) /\ UNCHANGED othersScope

InitSpecScope ==
    /\ InitScope
    /\ IdleCreation /\ IdleCall /\ IdleRelease /\ IdleQualname
    /\ IdleGenerator /\ IdleBuild /\ IdleFlags /\ IdleMutation

SpecScope == InitSpecScope /\ [][NextScope]_vars

NextRelease ==
    \/ AddFunctionVariableReleases /\ UNCHANGED othersRelease
    \/ EnterBody /\ UNCHANGED othersRelease
    \/ \E how \in ExitKinds : LeaveTried(how) /\ UNCHANGED othersRelease
    \/ ReleaseVariable /\ UNCHANGED othersRelease

InitSpecRelease ==
    /\ InitRelease
    /\ IdleCreation /\ IdleCall /\ IdleScope /\ IdleQualname /\ IdleGenerator
    /\ IdleBuild /\ IdleFlags /\ IdleMutation

SpecRelease == InitSpecRelease /\ [][NextRelease]_vars

NextQualname ==
    \/ \E provider \in QualScopes, name \in FunctionNames \cup ClassNames :
         NewFunctionBody(provider, name, name \in ClassNames)
           /\ UNCHANGED othersQualname
    \/ \E provider \in QualScopes :
         NewOutlineBody(provider) /\ UNCHANGED othersQualname
    \/ \E b \in QualScopes : GetFunctionQualname(b) /\ UNCHANGED othersQualname

InitSpecQualname ==
    /\ InitQualname
    /\ IdleCreation /\ IdleCall /\ IdleScope /\ IdleRelease /\ IdleGenerator
    /\ IdleBuild /\ IdleFlags /\ IdleMutation

SpecQualname == InitSpecQualname /\ [][NextQualname]_vars

NextGenerator ==
    \/ \E value \in SentValues : Resume(value) /\ UNCHANGED othersGenerator
    \/ \E value \in YieldedValues : Yield(value) /\ UNCHANGED othersGenerator
    \/ FallOffEnd /\ UNCHANGED othersGenerator
    \/ ReturnExit /\ UNCHANGED othersGenerator
    \/ ExceptionExit /\ UNCHANGED othersGenerator

InitSpecGenerator ==
    /\ InitGenerator
    /\ IdleCreation /\ IdleCall /\ IdleScope /\ IdleRelease /\ IdleQualname
    /\ IdleBuild /\ IdleFlags /\ IdleMutation

SpecGenerator == InitSpecGenerator /\ [][NextGenerator]_vars

NextBuild ==
    \/ \E provider \in 0..MaxBuilds, n \in DefinitionNodes :
         BuildFunctionNode(provider, n) /\ UNCHANGED othersBuild
    \/ \E provider \in 0..MaxBuilds, n \in DefinitionNodes :
         BuildAsyncFunctionNode(provider, n) /\ UNCHANGED othersBuild
    \/ \E provider \in 0..MaxBuilds :
         NewClassBody(provider) /\ UNCHANGED othersBuild

\* Async definitions are there from Python 3.5 on.
InitSpecBuild ==
    /\ python_version = 350
    /\ IdleBuild
    /\ IdleCreation /\ IdleCall /\ IdleScope /\ IdleRelease /\ IdleQualname
    /\ IdleGenerator /\ IdleFlags /\ IdleMutation

SpecBuild == InitSpecBuild /\ [][NextBuild]_vars

NextFlags ==
    \/ \E kind \in {"Function", "Generator", "Class"} :
         NewFlaggedBody(kind) /\ UNCHANGED othersFlags
    \/ markAsNeedsCreation /\ UNCHANGED othersFlags
    \/ markAsDirectlyCalled /\ UNCHANGED othersFlags
    \/ markAsCrossModuleUsed /\ UNCHANGED othersFlags
    \/ markAsClassClosureTaker /\ UNCHANGED othersFlags
    \/ markAsExceptionReturnValue /\ UNCHANGED othersFlags
    \* the levels: 2 is what needsGeneratorReturnHandling asks for, any
    \* level above 0 what needsGeneratorReturnExit asks for
    \/ \E value \in 0..2 :
         markAsNeedsGeneratorReturnHandling(value) /\ UNCHANGED othersFlags

InitSpecFlags ==
    /\ python_version = 350
    /\ IdleFlags
    /\ IdleCreation /\ IdleCall /\ IdleScope /\ IdleRelease /\ IdleQualname
    /\ IdleGenerator /\ IdleBuild /\ IdleMutation

SpecFlags == InitSpecFlags /\ [][NextFlags]_vars

NextMutation ==
    \/ \E s \in Bodies, name \in MutationNames :
         BindVariableRef(s, name) /\ UNCHANGED othersMutation
    \/ \E s \in Bodies, name \in MutationNames :
         BindTargetVariableRef(s, name) /\ UNCHANGED othersMutation
    \/ \E s \in Bodies, name \in MutationNames :
         VariableForClosure(s, name) /\ UNCHANGED othersMutation
    \/ \E s \in Bodies : \E v \in MutationVariables(s) :
         RemoveClosureVariable(s, v) /\ UNCHANGED othersMutation
    \/ \E s \in Bodies : \E v \in MutationVariables(s) :
         RemoveUserVariable(s, v) /\ UNCHANGED othersMutation
    \/ \E s \in Bodies : \E v \in MutationVariables(s) :
         DemoteClosureVariable(s, v) /\ UNCHANGED othersMutation

InitSpecMutation ==
    /\ InitMutation
    /\ IdleCreation /\ IdleCall /\ IdleRelease /\ IdleQualname
    /\ IdleGenerator /\ IdleBuild /\ IdleFlags

SpecMutation == InitSpecMutation /\ [][NextMutation]_vars

\* All machines, for a default specification.
Init ==
    \/ InitSpecCreation
    \/ InitSpecCall
    \/ InitSpecScope
    \/ InitSpecRelease
    \/ InitSpecQualname
    \/ InitSpecGenerator
    \/ InitSpecBuild
    \/ InitSpecFlags
    \/ InitSpecMutation

Next ==
    \/ NextCreation
    \/ NextCall
    \/ NextScope
    \/ NextRelease
    \/ NextQualname
    \/ NextGenerator
    \/ NextBuild
    \/ NextFlags
    \/ NextMutation

Spec == Init /\ [][Next]_vars

(***************************************************************************)
(* Properties of ExpressionFunctionCreation.computeExpression              *)
(* (SpecCreation).                                                         *)
(***************************************************************************)
Computed == cr_pc = "computed"

KwDefaultsSeq == IF kw_defaults # NoneExpr THEN <<kw_defaults>> ELSE <<>>

AnnotationsSeq == IF annotations # NoneExpr THEN <<annotations>> ELSE <<>>

\* Index of the first default that will raise, 0 when none does.
FirstRaisingDefault ==
    IF \E i \in 1..Len(defaults) : defaults[i].willRaise
    THEN CHOOSE i \in 1..Len(defaults) :
            /\ defaults[i].willRaise
            /\ \A j \in 1..(i - 1) : ~defaults[j].willRaise
    ELSE 0

IsDefault(e) == e.name = "default"

\* C2: with defaults [raisesA, literalB] and keyword defaults present, the
\* rewrite keeps only raisesA when defaults are evaluated before keyword
\* defaults, and keeps the keyword defaults as a side effect before the raise
\* of raisesA when keyword defaults are evaluated first; literalB is never
\* kept.
C2_EvaluationOrderModes ==
    ( /\ Computed
      /\ Len(defaults) = 2
      /\ defaults[1].willRaise
      /\ ~defaults[2].willRaise
      /\ kw_defaults # NoneExpr
      /\ ~kw_defaults.willRaise )
    => /\ cr_result.tag = "new_raise"
       /\ cr_result.node.expression = defaults[1]
       /\ cr_result.node.side_effects =
            IF kw_defaults_before_defaults THEN <<kw_defaults>> ELSE <<>>

\* C3: when d_k is the first default that will raise, the rewrite evaluates
\* d_1 .. d_(k-1) in order as side effects and then raises through d_k;
\* nothing evaluated after d_k (later defaults, annotations, and the keyword
\* defaults where they follow the defaults) is in the result.
C3_FirstRaisingDefault ==
    (Computed /\ FirstRaisingDefault > 0)
    => LET k  == FirstRaisingDefault
           se == cr_result.node.side_effects
       IN /\ cr_result.tag = "new_raise"
          /\ cr_result.node.expression = defaults[k]
          /\ SelectSeq(se, IsDefault) = SubSeq(defaults, 1, k - 1)
          /\ \A i \in 1..Len(se) :
               /\ se[i].name # "annotations"
               /\ se[i].name = "kw_defaults" => kw_defaults_before_defaults

\* C4: when no default will raise but the keyword defaults or the
\* annotations will, the rewrite keeps as side effects everything evaluated
\* before the raising child, in evaluation order (all the defaults, and the
\* keyword defaults when the annotations raise), and then raises.
C4_KwDefaultsOrAnnotationsRaise ==
    LET kwRaises  == kw_defaults # NoneExpr /\ kw_defaults.willRaise
        annRaises == annotations # NoneExpr /\ annotations.willRaise
        raising   == IF kwRaises THEN kw_defaults ELSE annotations
        before    == IF kwRaises
                     THEN (IF kw_defaults_before_defaults THEN <<>>
                           ELSE defaults)
                     ELSE (IF kw_defaults_before_defaults
                           THEN KwDefaultsSeq \o defaults
                           ELSE defaults \o KwDefaultsSeq)
    IN (Computed /\ FirstRaisingDefault = 0 /\ (kwRaises \/ annRaises))
       => /\ cr_result.tag = "new_raise"
          /\ cr_result.node.expression = raising
          /\ cr_result.node.side_effects = before

(***************************************************************************)
(* Properties of the call of a created function (SpecCall).                *)
(***************************************************************************)
\* The first pass has taken the call through computeExpressionCall.
CallComputed == Len(history) = 0 /\ stage \in {"direct", "done", "crashed"}

NoKeywords == call.kw = "None"

TupleArgs == call.args.shape \in {"None", "ConstantRef", "MakeTuple"}

NumPositional == Len(call.args.values)

NumNormal == callee.parameters.normal_args

TooManyPositional ==
    NumPositional > NumNormal /\ ~callee.parameters.list_star_arg

TooFewPositional ==
    NumPositional < NumNormal - callee.parameters.default_count

NumDeclared ==
    NumNormal + callee.parameters.kw_only_args
    + (IF callee.parameters.list_star_arg THEN 1 ELSE 0)
    + (IF callee.parameters.dict_star_arg THEN 1 ELSE 0)

\* C5: a second (and any later) pass of the call-site optimizer leaves the
\* tree as the first pass left it and reports no change, with and without
\* the experimental mode.
C5_InliningFixpoint ==
    \A i \in 2..Len(history) :
        /\ history[i].node = history[1].node
        /\ ~history[i].changed

\* A direct call made by the first pass has been visited again by a second.
C5_Witness ==
    /\ Len(history) >= 2
    /\ history[1].changed
    /\ history[1].node.kind = "FunctionCall"

\* C6: a call whose positional arguments fit is replaced by a direct call
\* with one value for every declared parameter (keyword only and star
\* parameters included), the normal parameters first: the argument given,
\* or the default marker where none was given.
C6_DirectCallBindsEveryParameter ==
    ( /\ CallComputed
      /\ NoKeywords
      /\ TupleArgs
      /\ ~TooManyPositional
      /\ ~TooFewPositional )
    => /\ stage # "crashed"
       /\ node.kind \in {"FunctionCall", "Outline"}
       /\ Len(node.values) = NumDeclared
       /\ \A i \in 1..NumNormal :
            node.values[i] = IF i <= NumPositional THEN Positional(i)
                             ELSE DefaultValue

\* C7: when there are more positional arguments than the parameters take,
\* the call is replaced by a raise preceded by the side effects of all the
\* call's argument expressions; computeExpressionCall returns normally and
\* no direct call is made.
C7_TooManyArgumentsRaise ==
    (CallComputed /\ NoKeywords /\ TupleArgs /\ TooManyPositional)
    => /\ stage = "done"
       /\ tag = "new_raise"
       /\ node.kind = "Raise"
       /\ node.side_effects = call.args.values

C7_Witness ==
    /\ CallComputed
    /\ NoKeywords
    /\ call.args.shape = "MakeTuple"
    /\ NumPositional = 3
    /\ NumNormal = 2
    /\ node.kind = "Raise"

\* What the same call without a keywords expression turns into.
RewriteWithoutKeywords ==
    computeExpressionCall(CallNode, [call EXCEPT !.kw = "None"], callee)

\* C8 as claimed: a call whose keywords are the constant empty dictionary is
\* rewritten exactly as the same call without keywords.
C8_EmptyKeywordsAsNoKeywords ==
    (CallComputed /\ call.kw = "ConstantEmptyDict" /\ TupleArgs)
    => LET r == RewriteWithoutKeywords
       IN r.error = "" =>
            \/ node = r.node
            \/ /\ r.node.kind = "FunctionCall"
               /\ node = computeExpressionFunctionCall(
                             r.node, callee, experimental).node

\* C8 as amended: a call with a keywords expression, be it the constant
\* empty dictionary, is returned untouched and no change is reported.
C8_EmptyKeywordsLeftUntouched ==
    (CallComputed /\ call.kw = "ConstantEmptyDict")
    => /\ stage = "done"
       /\ node = CallNode
       /\ tag = "None"
       /\ ~changed

C8_Witness ==
    /\ CallComputed
    /\ call.kw = "ConstantEmptyDict"
    /\ call.args.shape = "ConstantRef"
    /\ ~TooManyPositional
    /\ ~TooFewPositional
    /\ callee.parameters.kw_only_args = 0
    /\ node = CallNode

\* C9: a call with keywords that are not the constant empty dictionary, or
\* with positional arguments that are neither a constant nor a tuple
\* creation, is returned untouched, no change is reported and
\* computeExpressionCall does not fail.
C9_OtherShapesUntouched ==
    ( /\ CallComputed
      /\ \/ call.kw \in {"ConstantDict", "MakeDict"}
         \/ call.args.shape = "Other" )
    => /\ stage = "done"
       /\ node = CallNode
       /\ tag = "None"
       /\ ~changed

\* C10: the direct call's computeExpression replaces it by an outline exactly
\* when the experimental mode is on, the body is neither a generator nor a
\* class body and the body cannot raise; otherwise the direct call is
\* returned as it is, with no change reported.
C10_InliningDecision ==
    [][ ( /\ node.kind = "FunctionCall"
          /\ stage \in {"visit", "direct"}
          /\ stage' # stage )
        => IF /\ experimental
              /\ callee.kind = "Function"
              /\ ~callee.mayRaise
           THEN /\ node'.kind = "Outline"
                /\ node'.values = node.values
                /\ tag' = "new_statements"
           ELSE /\ node' = node
                /\ tag' = "None"
                /\ stage' = "done" ]_vars

C10_Witness ==
    /\ node.kind = "Outline"
    /\ experimental
    /\ callee.kind = "Function"
    /\ ~callee.mayRaise

(***************************************************************************)
(* Properties of the name resolution (SpecScope).                          *)
(***************************************************************************)
\* The scopes from s upwards to, and without, scope o; o is an ancestor of s.
RECURSIVE PathUpTo(_, _)
PathUpTo(s, o) ==
    IF s = o \/ s = 0 THEN {} ELSE {s} \cup PathUpTo(parent[s], o)

RECURSIVE IsProperAncestor(_, _)
IsProperAncestor(o, s) ==
    IF s = 0 THEN FALSE
    ELSE parent[s] = o \/ IsProperAncestor(o, parent[s])

\* The resolution op was a reference answered with a variable that a body
\* above the referencing one owns.
ClosureReference(op) ==
    /\ op.op = "reference"
    /\ op.result.kind \in {"Local", "Parameter"}
    /\ op.result.owner # 0
    /\ IsProperAncestor(op.result.owner, op.scope)

Lists(prov, tk, s, v) == prov[s][v.name] = v \/ v \in tk[s]

\* C1 as claimed: after a reference in scope S to a name owned by a proper
\* ancestor O (not the module), every scope from S up to, and without, O
\* lists the variable as provided or taken, intermediate bodies that never
\* referenced the name included.
C1_ClosurePropagation ==
    ClosureReference(last_op)
    => \A m \in PathUpTo(last_op.scope, last_op.result.owner) :
          Lists(providing, taken, m, last_op.result)

\* C1 as amended: such a reference makes the referencing scope S provide and
\* take the variable, and changes no other body: the scopes between S and O
\* are left as they were.
C1_ReferenceRegistersAtReferenceScopeOnly ==
    [][ (last_op' # last_op /\ ClosureReference(last_op'))
        => /\ providing'[last_op'.scope][last_op'.name] = last_op'.result
           /\ last_op'.result \in taken'[last_op'.scope]
           /\ \A m \in Bodies \ {last_op'.scope} :
                providing'[m] = providing[m] /\ taken'[m] = taken[m] ]_vars

\* A reference two bodies below the owner, the body in between not listing
\* the variable.
C1_Witness ==
    /\ ClosureReference(last_op)
    /\ parent[last_op.scope] # last_op.result.owner
    /\ ~Lists(providing, taken, parent[last_op.scope], last_op.result)
    /\ Lists(providing, taken, last_op.scope, last_op.result)

(***************************************************************************)
(* Properties of the exception exit bookkeeping (SpecCall).                *)
(***************************************************************************)
\* C11: whenever the pass has visited a call (the call of the function
\* creation or a direct call) whose callee body may raise, the exception exit
\* is recorded with the pass, whatever became of the call: inlined, kept as
\* direct call, rewritten to a raise, or left untouched.
C11_ExceptionExitRecorded ==
    [][ (/\ stage = "visit"
         /\ node.kind \in {"Call", "FunctionCall"}
         /\ stage' # "visit"
         /\ mayRaiseException(callee))
        => raise_exit' ]_vars

\* A later pass came to a direct call of a body that may raise and recorded
\* the exception exit there.
C11_Witness ==
    /\ Len(history) = 1
    /\ stage = "done"
    /\ node.kind = "FunctionCall"
    /\ mayRaiseException(callee)
    /\ raise_exit

(***************************************************************************)
(* Properties of the release of variables (SpecRelease).                   *)
(***************************************************************************)
Injected == rel_pc \in {"injected", "body", "final", "exited"}

IsOwnLocal(v) == v.kind = "Local" /\ v.owner = Self

IsOwnParameter(v) == v.kind = "Parameter" /\ v.owner = Self

SeqRange(q) == {q[i] : i \in 1..Len(q)}

\* C12: nothing is released before the original statements were left, and
\* once the body is exited, by any of normal completion, return or exception,
\* the releases of the locals the body owns are exactly those locals, each
\* once, in the order of their declaration.
C12_ReleaseCompleteness ==
    /\ rel_pc \in {"built", "injected", "body"} => rel_released = <<>>
    /\ rel_pc = "exited"
         => SelectSeq(rel_released, IsOwnLocal)
              = SelectSeq(rel_function.variables, IsOwnLocal)

\* A body owning the locals x and y, declared in this order, was left by an
\* exception and has released the two.
C12_Witness ==
    /\ rel_pc = "exited"
    /\ rel_exit = "exception"
    /\ SelectSeq(rel_function.variables, IsOwnLocal)
         = <<LocalVariable(Self, "x"), LocalVariable(Self, "y")>>
    /\ SelectSeq(rel_released, IsOwnLocal)
         = <<LocalVariable(Self, "x"), LocalVariable(Self, "y")>>

\* C13 as claimed: the released variables are exactly the variables of kind
\* Local the body owns; no parameter variable is among them.
C13_ReleaseSetIsOwnLocals ==
    Injected
    => SeqRange(rel_body.final)
         = {v \in SeqRange(rel_function.variables) : IsOwnLocal(v)}

\* C13 as amended: the released variables are exactly the local and the
\* parameter variables the body owns, without the parameter variables when
\* the body is a generator; a variable owned by another scope is never
\* among them.
C13_ReleaseSetIsOwnLocalsAndParameters ==
    Injected
    => SeqRange(rel_body.final)
         = {v \in SeqRange(rel_function.variables) :
              \/ IsOwnLocal(v)
              \/ IsOwnParameter(v) /\ ~isGenerator(rel_function)}

\* A plain function with a parameter of its own, which is released, and a
\* variable shared from above, which is not.
C13_Witness ==
    /\ Injected
    /\ rel_function.kind = "Function"
    /\ \E v \in SeqRange(rel_body.final) : IsOwnParameter(v)
    /\ \E v \in SeqRange(rel_function.variables) :
         v.owner = OtherOwner /\ v \notin SeqRange(rel_body.final)

(***************************************************************************)
(* Properties of references to module variables (SpecScope).               *)
(***************************************************************************)
\* The step is a reference to a name in a body.
ReferenceStep == last_op' # last_op /\ last_op'.op = "reference"

\* The scopes from s up to the module, both included.
ChainToModule(s) == PathUpTo(s, 0) \cup {0}

\* C14: a reference in a body to a name the body does not provide, found to
\* be the module's, gives in an unoptimized body the maybe local variable
\* owned by that body around the module variable, and in any other body the
\* module variable itself; a body that is not unoptimized never provides a
\* maybe local variable.
C14_DynamicFallback ==
    [][ /\ (/\ ReferenceStep
            /\ ~hasProvidedVariable(providing, last_op'.scope, last_op'.name)
            /\ last_op'.result.kind \in {"Module", "MaybeLocal"})
           => last_op'.result
                = IF unoptimized[last_op'.scope]
                  THEN MaybeLocalVariable(last_op'.scope,
                                          ModuleVariable(last_op'.name))
                  ELSE ModuleVariable(last_op'.name)
        /\ \A s \in Bodies, n \in VariableNames :
             isMaybeLocalVariable(providing'[s][n]) => unoptimized[s] ]_vars

\* An unoptimized body got a maybe local variable of its own as the second
\* resolution, in a chain that also has a body that is not unoptimized.
C14_Witness ==
    /\ last_op.op = "reference"
    /\ unoptimized[last_op.scope]
    /\ isMaybeLocalVariable(last_op.result)
    /\ last_op.result.owner = last_op.scope
    /\ last_op.count = 2
    /\ \E s \in Bodies : ~unoptimized[s] /\ s # last_op.scope

\* C15: a reference to a name that no scope from the referencing body up to
\* the module provides gives the module variable of that name, as a maybe
\* local variable of the body if the body is unoptimized; no other outcome.
C15_UniversalFallback ==
    [][ (/\ ReferenceStep
         /\ \A m \in ChainToModule(last_op'.scope) :
              ~hasProvidedVariable(providing, m, last_op'.name))
        => /\ last_op'.result
                \in {ModuleVariable(last_op'.name),
                     MaybeLocalVariable(last_op'.scope,
                                        ModuleVariable(last_op'.name))}
           /\ isMaybeLocalVariable(last_op'.result)
                <=> unoptimized[last_op'.scope] ]_vars

\* The name "__class__" was referenced three bodies deep, below a class
\* body, with no scope providing it, and the module variable came back.
C15_Witness ==
    /\ last_op.op = "reference"
    /\ last_op.count = 1
    /\ last_op.name = "__class__"
    /\ last_op.scope = 3
    /\ scope_kind[2] = "Class"
    /\ python_version >= 340
    /\ last_op.result = ModuleVariable("__class__")

(***************************************************************************)
(* Properties of assignments and of class bodies (SpecScope).              *)
(***************************************************************************)
AssignmentStep == last_op' # last_op /\ last_op'.op = "assignment"

\* What an assignment in a body that does not take the name gives: the
\* variable is owned by the body, and unless it was provided before, it is a
\* new local variable, provided from now on.
AssignmentBindsOwn(kinds) ==
    /\ last_op'.result.owner = last_op'.scope
    /\ last_op'.result.kind \in kinds
    /\ last_op'.result.name = last_op'.name
    /\ providing'[last_op'.scope][last_op'.name] = last_op'.result
    /\ IF hasProvidedVariable(providing, last_op'.scope, last_op'.name)
       THEN last_op'.result = providing[last_op'.scope][last_op'.name]
       ELSE last_op'.result = LocalVariable(last_op'.scope, last_op'.name)

\* An assignment in a body that takes the name returns the taken variable
\* and binds nothing.
AssignmentReturnsTaken ==
    /\ last_op'.result \in taken[last_op'.scope]
    /\ last_op'.result.name = last_op'.name
    /\ providing' = providing
    /\ taken' = taken

\* C16 as claimed: an assignment to a name the body takes from the closure
\* returns the taken variable and creates no binding; any other assignment
\* returns the existing or a new variable of kind Local or Parameter owned
\* by the body.
C16_AssignmentLocalOrParameter ==
    [][ AssignmentStep
        => IF hasTakenVariable(taken, last_op'.scope, last_op'.name)
           THEN AssignmentReturnsTaken
           ELSE AssignmentBindsOwn({"Local", "Parameter"}) ]_vars

\* C16 as amended: as claimed, but the existing variable of the body can
\* also be the maybe local variable that a reference in the unoptimized
\* body left there.
C16_AssignmentOwnVariable ==
    [][ AssignmentStep
        => IF hasTakenVariable(taken, last_op'.scope, last_op'.name)
           THEN AssignmentReturnsTaken
           ELSE /\ AssignmentBindsOwn({"Local", "Parameter", "MaybeLocal"})
                /\ isMaybeLocalVariable(last_op'.result)
                     => /\ unoptimized[last_op'.scope]
                        /\ providing[last_op'.scope][last_op'.name]
                             = last_op'.result ]_vars

\* An assignment in an unoptimized body came back with the maybe local
\* variable that a reference had left there.
C16_Witness ==
    /\ last_op.op = "assignment"
    /\ last_op.count = 2
    /\ unoptimized[last_op.scope]
    /\ last_op.result
         = MaybeLocalVariable(last_op.scope, ModuleVariable(last_op.name))

\* C17: a variable that a body got from the closure and that a class body
\* owns is the class body's "__class__", from Python 3 on; a local of any
\* other name in a class body is never what a body below it gets.
C17_ClassProvidesNoClosure ==
    \A s \in Bodies, n \in VariableNames :
        LET v == providing[s][n]
        IN (/\ v # NoVar
            /\ v.owner # s
            /\ v.owner # 0
            /\ scope_kind[v.owner] = "Class")
           => n = "__class__" /\ python_version >= 300

\* A function body below a class body that has a local x referenced x and
\* got a variable that is not the class body's.
C17_Witness ==
    /\ last_op.op = "reference"
    /\ last_op.name = "x"
    /\ last_op.scope # 0
    /\ scope_kind[parent[last_op.scope]] = "Class"
    /\ providing[parent[last_op.scope]]["x"]
         = LocalVariable(parent[last_op.scope], "x")
    /\ last_op.result.owner # parent[last_op.scope]

(***************************************************************************)
(* Properties of the qualified names (SpecQualname).                       *)
(***************************************************************************)
\* The qualified name of body b goes by its provider as claimed; the
\* provider's own qualified name is the one the provider answered with.
QualnameComposed(values, b) ==
    LET n == q_nodes[b]
        p == q_nodes[n.provider]
    IN IF p.kind = "Module" THEN values[b] = getFunctionName(n)
       ELSE values[n.provider] # NoQualname
              => values[b] = values[n.provider]
                               \o (IF p.kind = "Class" THEN "."
                                   ELSE ".<locals>.")
                               \o getFunctionName(n)

\* C18: the qualified name a body answers with is its own name below the
\* module, the provider's qualified name and ".", and the name below a class
\* body, and the provider's qualified name, ".<locals>." and the name below
\* any other body; a body asked again answers as before.
C18_QualifiedName ==
    [][ \A b \in 1..q_count :
          /\ q_values'[b] # NoQualname => QualnameComposed(q_values', b)
          /\ q_values[b] # NoQualname => q_values'[b] = q_values[b] ]_vars

\* Class C of the module, its method f and a lambda in f have answered.
C18_Witness ==
    /\ q_count = 3
    /\ q_values[1] = "C"
    /\ q_values[2] = "C.f"
    /\ q_values[3] = "C.f.<locals>.<lambda>"

(***************************************************************************)
(* Properties of the generator object (SpecGenerator).                     *)
(***************************************************************************)
Transition(from, to) == gen_status \in from /\ gen_status' = to

\* C19: every change of the generator's state is a resume, from Created or
\* Suspended to Running, a yield, from Running to Suspended, the end of the
\* body or a return, from Running to Completed, or an exception leaving the
\* body, from Running to Failed; a resume happens in no state but Created
\* and Suspended.
C19_SuspendableTransitions ==
    [][ /\ gen_status' # gen_status
           => \/ Transition({"Created", "Suspended"}, "Running")
              \/ Transition({"Running"}, "Suspended")
              \/ Transition({"Running"}, "Completed")
              \/ Transition({"Running"}, "Failed")
        /\ gen_resumes' # gen_resumes
           => Transition({"Created", "Suspended"}, "Running") ]_vars

\* The generator was resumed twice, yielded in between, and has failed.
C19_Witness ==
    /\ gen_status = "Failed"
    /\ gen_resumes = 2
    /\ gen_error = "exception"

GeneratorUntouched == UNCHANGED varsGenerator

\* C20: a generator that is Completed or Failed stays what it is, whatever
\* step is taken, and nothing of it changes any more.
C20_TerminalStates ==
    [][ (gen_status \in {"Completed", "Failed"})
          => (gen_status' = gen_status /\ GeneratorUntouched) ]_vars

\* The body has returned after a yield: the generator is Completed,
\* StopIteration is set and nothing is yielded.
C20_Witness ==
    /\ gen_status = "Completed"
    /\ gen_resumes = 2
    /\ gen_error \in {"StopIteration", "StopIteration(value)"}
    /\ m_yielded = NULL

(***************************************************************************)
(* Claims on the building of bodies (SpecBuild).                           *)
(***************************************************************************)
HasDuplicateName(n) ==
    \E i, j \in 1..Len(n.args) : i # j /\ n.args[i] = n.args[j]

TooManyDefaults(n) == n.defaults > Len(n.args)

\* C21: a builder called for a definition whose parameter spec is invalid
\* (a duplicate parameter name, more defaults than positional parameters)
\* raises a syntax error with the source reference of the definition, and
\* neither creates a body nor registers one with the module: the bodies and
\* the registry of the module are as before the call.
C21_SpecErrorAbortsConstruct ==
    [][ ((b_result'.tag \in {"SyntaxError", "built"})
           /\ (HasDuplicateName(b_result'.call)
                 \/ TooManyDefaults(b_result'.call)))
        => /\ b_result'.tag = "SyntaxError"
           /\ b_result'.source_ref = b_result'.call.source_ref
           /\ b_bodies' = b_bodies
           /\ b_functions' = b_functions
           /\ b_creations' = b_creations ]_vars

\* A syntax error was raised for a definition with a duplicate parameter
\* name, in a module that has a registered body.
C21_Witness ==
    /\ b_result.tag = "SyntaxError"
    /\ b_result.source_ref = "m.py:5"
    /\ HasDuplicateName(b_result.call)
    /\ Len(b_functions) >= 1

\* How often body b stands in the registry of the module.
TimesRegistered(b) ==
    Cardinality({i \in 1..Len(b_functions) : b_functions[i] = b})

\* The coroutine bodies that coroutine creations were made for.
CoroutineCreationRefs ==
    UNION { { b_bodies[c].body.statements[i].ref :
                i \in 1..Len(b_bodies[c].body.statements) } :
            c \in 1..Len(b_bodies) } \ {0}

\* C22: every body made, of whatever kind (function, generator, class,
\* coroutine), stands in the registry of its module exactly once, and every
\* function creation and coroutine creation refers to a registered body.
C22_RegisteredOnceAtConstruction ==
    /\ \A b \in 1..Len(b_bodies) : TimesRegistered(b) = 1
    /\ \A i \in 1..Len(b_creations) :
         TimesRegistered(b_creations[i].function_ref) = 1
    /\ \A b \in CoroutineCreationRefs : TimesRegistered(b) = 1

(***************************************************************************)
(* Claims on the removal and demotion of variables (SpecMutation).         *)
(***************************************************************************)
DemoteStep == last_op' # last_op /\ last_op'.op = "demote"

\* C23: demoteClosureVariable of body S with a variable v that S takes:
\* afterwards S does not take v, S provides under v's name a new local
\* variable owned by S, every variable reference of S that was bound to v
\* is bound to the new variable, and the variable registry has S as a user
\* of the new variable.
C23_Demotion ==
    [][ (DemoteStep /\ last_op'.result \in taken[last_op'.scope])
        => LET s == last_op'.scope
               v == last_op'.result
               new_variable == LocalVariable(s, v.name)
           IN /\ mut_error' = NoError
              /\ v \notin taken'[s]
              /\ providing'[s][v.name] = new_variable
              /\ Len(use_sites'[s]) = Len(use_sites[s])
              /\ \A i \in 1..Len(use_sites[s]) :
                   use_sites'[s][i] = IF use_sites[s][i] = v
                                      THEN new_variable ELSE use_sites[s][i]
              /\ <<new_variable, s>> \in usage' ]_vars

\* A taken variable a reference of the body was bound to has been demoted.
C23_Witness ==
    /\ last_op.op = "demote"
    /\ mut_error = NoError
    /\ last_op.result.owner # last_op.scope
    /\ use_sites[last_op.scope]
         = <<LocalVariable(last_op.scope, last_op.name)>>

C25_CoroutineCreator ==
    /\ \A k \in 1..Len(b_bodies) :
         b_bodies[k].kind = "Coroutine"
         => LET creator == b_bodies[k].provider
            IN /\ creator \in 1..Len(b_bodies)
               /\ b_bodies[creator].kind = "Function"
               /\ b_bodies[creator].body.kind = "Sequence"
               /\ b_bodies[creator].body.statements
                    = <<ReturnCoroutineCreation(k)>>
               /\ \E i \in 1..Len(b_creations) :
                    b_creations[i].function_ref = creator
    /\ \A i \in 1..Len(b_creations) :
         b_bodies[b_creations[i].function_ref].kind # "Coroutine"

\* An async definition was built inside a function body.
C25_Witness ==
    \E k \in 1..Len(b_bodies) :
       /\ b_bodies[k].kind = "Coroutine"
       /\ b_bodies[b_bodies[k].provider].provider # 0
       /\ b_result.tag = "built"

ClosureStep == last_op' # last_op /\ last_op'.op = "closure"

\* C26: getVariableForClosure of a function body S makes no binding in S:
\* what S provides is as before the call; the result is the variable S
\* provides under the name when there is one, and otherwise what the same
\* lookup on the provider of S gives.
C26_ClosureLookupCreatesNoBinding ==
    [][ ClosureStep
        => LET s == last_op'.scope
               name == last_op'.name
           IN /\ providing'[s] = providing[s]
              /\ taken' = taken
              /\ hasProvidedVariable(providing, s, name)
                 => /\ last_op'.result = providing[s][name]
                    /\ providing' = providing
              /\ ~hasProvidedVariable(providing, s, name)
                 => LET up == getVariableForClosure(providing, parent[s],
                                                    name)
                    IN /\ last_op'.result = up.result
                       /\ last_op'.result.owner # s
                       /\ providing' = up.providing ]_vars

\* The lookup on a body that does not provide the name was answered with
\* the parameter of a body above it.
C26_Witness ==
    /\ last_op.op = "closure"
    /\ isParameterVariable(last_op.result)
    /\ last_op.result.owner < last_op.scope
    /\ ~hasProvidedVariable(providing, last_op.scope, last_op.name)

(***************************************************************************)
(* Claims on the resolution of references, continued (SpecScope).          *)
(***************************************************************************)
\* C27: right after a reference of body S to a name was resolved, resolving
\* the same reference again gives the same variable and changes neither
\* what S provides nor what S takes (nor anything of another scope),
\* whether the variable is a local, a closure variable, a module variable
\* or a maybe local variable.
C27_ReferenceResolutionStable ==
    last_op.op = "reference"
    => LET again == getVariableForReference(providing, taken, last_op.scope,
                                            last_op.name)
       IN /\ again.result = last_op.result
          /\ again.providing = providing
          /\ again.taken = taken

\* The second resolution of a run was a reference in an unoptimized body,
\* answered with the maybe local variable that the body then provides.
C27_Witness ==
    /\ last_op.op = "reference"
    /\ last_op.count = 2
    /\ isMaybeLocalVariable(last_op.result)
    /\ providing[last_op.scope][last_op.name] = last_op.result

(***************************************************************************)
(* Claims on the removal and demotion of variables, continued.             *)
(***************************************************************************)
ProvidesOwnParameter(prov, s, name) ==
    prov[s][name] = ParameterVariable(s, name)

\* C28: whatever removeClosureVariable, removeUserVariable and
\* demoteClosureVariable are called with, and also when the call fails an
\* assertion, a parameter variable of a body that the body provides under
\* its name is still provided under that name after the call.
C28_ParametersStayProvided ==
    [][ \A s \in Bodies, name \in VariableNames :
          ProvidesOwnParameter(providing, s, name)
          => ProvidesOwnParameter(providing', s, name) ]_vars

(***************************************************************************)
(* Claims on the indicators of a body (SpecFlags).                         *)
(***************************************************************************)
MarkedFlags == {"needs_creation", "needs_direct", "cross_module_use"}

\* C29: needs_creation, needs_direct and cross_module_use are false when
\* the body is made and no call makes one of them false again once it is
\* true; the return handling level of a generator body starts at 0 and
\* never goes down under markAsNeedsGeneratorReturnHandling.
C29_FlagsMonotonic ==
    [][ /\ (fl_kind = "None" /\ fl_kind' # "None")
           => /\ \A f \in MarkedFlags : ~fl_flags'[f]
              /\ fl_return_exit' = 0
        /\ fl_kind # "None"
           => /\ \A f \in MarkedFlags : fl_flags[f] => fl_flags'[f]
              /\ fl_return_exit' >= fl_return_exit ]_vars

\* A generator body with the three indicators set, whose level went to 2.
C29_Witness ==
    /\ fl_kind = "Generator"
    /\ \A f \in MarkedFlags : fl_flags[f]
    /\ fl_return_exit = 2

(***************************************************************************)
(* Claims on the building of bodies, continued (SpecBuild).                *)
(***************************************************************************)
\* The last statement of the sequence is the one given.
EndsWith(statements, statement) ==
    Len(statements) > 0 /\ statements[Len(statements)] = statement

\* C30: the body of every function body that is no generator, and of every
\* coroutine body, ends in an aborting statement, a return of None being
\* appended where it would not; inserting the final return into such a body
\* again leaves it as it is; the body of a generator holds no appended
\* return of None.
C30_FinalReturn ==
    \A b \in 1..Len(b_bodies) :
       /\ b_bodies[b].kind \in {"Function", "Coroutine"}
          => /\ isStatementAborting(b_bodies[b].body)
             /\ _insertFinalReturnStatement(b_bodies[b].body) = b_bodies[b].body
       /\ b_bodies[b].kind = "Generator"
          => /\ ~EndsWith(b_bodies[b].body.statements, ReturnNone)
             /\ b_bodies[b].body.kind = "Sequence"

\* A function whose statements could fall off the end got the return, and
\* a generator whose statements could do so was built without it.
C30_Witness ==
    /\ \E b \in 1..Len(b_bodies) :
         /\ b_bodies[b].kind = "Function"
         /\ b_bodies[b].body.statements = <<ExpressionStatement, ReturnNone>>
    /\ \E b \in 1..Len(b_bodies) :
         /\ b_bodies[b].kind = "Generator"
         /\ b_bodies[b].body.statements = <<YieldStatement>>

====
